---- MODULE Spec2Model ----
(***************************************************************************)
(* Model of the git-aware local filesystem backend (src/src/backend.rs).   *)
(*                                                                         *)
(* A path is a sequence of component names.  A user path string is a       *)
(* record [abs, comps]: whether it is absolute, and its components, which  *)
(* may contain "..".  The filesystem maps every existing canonical path to *)
(* a node: a directory, a regular file with its bytes, or a symbolic link. *)
(***************************************************************************)
EXTENDS Integers, Sequences, FiniteSets, TLC

VARIABLES
    fs,        \* the filesystem: canonical path -> node
    fs0,       \* the filesystem as it was when the last call started
    nops,      \* number of completed single-path calls
    phase,     \* "idle", or the traversal call in progress / done
    call,      \* the arguments of the last call
    res,       \* the result of the last call (err = "none": Ok)
    walk       \* the state of the traversal call in progress

vars == <<fs, fs0, nops, phase, call, res, walk>>

(***************************************************************************)
(* Bounds of the exploration.                                              *)
(***************************************************************************)
MaxOps == 1

(***************************************************************************)
(* Filesystem nodes and the initial tree.                                  *)
(*                                                                         *)
(*   /A          repository A (has /A/.git)                                *)
(*   /A/w        the server root, a subdirectory of repository A           *)
(*   /A/g        a file of repository A outside the server root            *)
(*   /B          repository B                                              *)
(*   /N          a directory in no repository                              *)
(*   /A/w/l      a symbolic link to /N                                     *)
(***************************************************************************)
DirNode == [kind |-> "dir", data |-> <<>>, to |-> <<>>]

FileNode(d) == [kind |-> "file", data |-> d, to |-> <<>>]

LinkNode(t) == [kind |-> "link", data |-> <<>>, to |-> t]

Root == <<"A", "w">>

InitFs ==
    ( <<>> :> DirNode )
    @@ ( <<"A">> :> DirNode )
    @@ ( <<"A", ".git">> :> DirNode )
    @@ ( <<"A", "g">> :> FileNode(<<"b">>) )
    @@ ( <<"A", "w">> :> DirNode )
    @@ ( <<"A", "w", "ab">> :> FileNode(<<"a", "\n", "A">>) )
    @@ ( <<"A", "w", "b">> :> FileNode(<<"a", "\n">>) )
    @@ ( <<"A", "w", "d">> :> DirNode )
    @@ ( <<"A", "w", "d", "a">> :> FileNode(<<"b", "\n", "a">>) )
    @@ ( <<"A", "w", "l">> :> LinkNode(<<"N">>) )
    @@ ( <<"B">> :> DirNode )
    @@ ( <<"B", ".git">> :> DirNode )
    @@ ( <<"B", "h">> :> FileNode(<<"a">>) )
    @@ ( <<"N">> :> DirNode )
    @@ ( <<"N", "s">> :> FileNode(<<"a">>) )

(***************************************************************************)
(* Path helpers (std::path::Path).                                         *)
(***************************************************************************)
Front(s) == SubSeq(s, 1, Len(s) - 1)

Last(s) == s[Len(s)]

\* Path::starts_with: component-wise prefix.
StartsWith(p, base) ==
    /\ Len(base) <= Len(p)
    /\ SubSeq(p, 1, Len(base)) = base

\* Path::strip_prefix, for a path known to start with base.
StripPrefix(p, base) == SubSeq(p, Len(base) + 1, Len(p))

\* A user path string.
Rel(comps) == [abs |-> FALSE, comps |-> comps]

Abs(comps) == [abs |-> TRUE, comps |-> comps]

\* `if is_absolute { PathBuf::from(raw) } else { self.root.join(path) }`
Join(up) == IF up.abs THEN up.comps ELSE Root \o up.comps

\* Path::parent: the path without its final component; None for "/".
HasParent(p) == p # <<>>

Parent(p) == Front(p)

(***************************************************************************)
(* Path resolution by the operating system: components are followed from   *)
(* "/", ".." steps to the parent of the directory reached so far, and a    *)
(* symbolic link is replaced by its target.                                *)
(***************************************************************************)
RECURSIVE Resolve(_, _, _)
Resolve(f, cur, rest) ==
    IF rest = <<>> THEN [err |-> "none", path |-> cur]
    ELSE IF f[cur].kind # "dir" THEN [err |-> "NotADirectory", path |-> cur]
    ELSE IF Head(rest) = ".."
        THEN Resolve(f, IF cur = <<>> THEN cur ELSE Front(cur), Tail(rest))
    ELSE LET nxt == Append(cur, Head(rest)) IN
        IF nxt \notin DOMAIN f THEN [err |-> "NotFound", path |-> nxt]
        ELSE IF f[nxt].kind = "link"
            THEN Resolve(f, <<>>, f[nxt].to \o Tail(rest))
        ELSE Resolve(f, nxt, Tail(rest))

\* Path::canonicalize (realpath): fails unless every component exists.
Canonicalize(f, p) == Resolve(f, <<>>, p)

\* std::fs::metadata: the node a path leads to, following links.
Metadata(f, p) ==
    LET r == Canonicalize(f, p) IN
    IF r.err = "none"
        THEN [err |-> "none", is_dir |-> f[r.path].kind = "dir",
              is_file |-> f[r.path].kind = "file", len |-> Len(f[r.path].data)]
        ELSE [err |-> r.err, is_dir |-> FALSE, is_file |-> FALSE, len |-> 0]

\* Path::exists
Exists(f, p) == Canonicalize(f, p).err = "none"

\* Path::is_dir
IsDir(f, p) == Metadata(f, p).is_dir

(***************************************************************************)
(* LocalGitAwareFs::find_git_root: the nearest directory, from `start`     *)
(* upward, that contains ".git".                                           *)
(***************************************************************************)
RECURSIVE find_git_root(_, _)
find_git_root(f, start) ==
    IF Exists(f, Append(start, ".git")) THEN [found |-> TRUE, path |-> start]
    ELSE IF HasParent(start) THEN find_git_root(f, Parent(start))
    ELSE [found |-> FALSE, path |-> <<>>]

\* LocalGitAwareFs::strip_root and its fallback `canonical.display()`.
Display(p) == IF StartsWith(p, Root) THEN Rel(StripPrefix(p, Root)) ELSE Abs(p)

\* The display path of a missing path in stat and delete_path.
DisplayMissing(up) == IF up.abs THEN Abs(up.comps) ELSE Rel(up.comps)

(***************************************************************************)
(* LocalGitAwareFs::resolve_path                                           *)
(***************************************************************************)
\* Mutant: resolve_path without the containment check.
resolve_path_unchecked(f, up) ==
    LET c == Canonicalize(f, Join(up)) IN
    IF c.err # "none" THEN [err |-> "CanonicalizePath", path |-> Join(up)]
    ELSE [err |-> "none", path |-> c.path]

resolve_path(f, up) ==
    LET c == Canonicalize(f, Join(up)) IN
    IF c.err # "none" THEN [err |-> "CanonicalizePath", path |-> Join(up)]
    ELSE IF ~up.abs /\ ~StartsWith(c.path, Root)
        THEN [err |-> "PathEscapesRepo", path |-> c.path]
    ELSE [err |-> "none", path |-> c.path]

(***************************************************************************)
(* Filesystem mutations of the operating system (std::fs).  Each returns   *)
(* [err, fs]: the error kind ("none" on success) and the filesystem after. *)
(***************************************************************************)
\* `let v = e;` followed by Body: the value is computed once.
With(bound, Body(_)) == Body(bound)

\* The node a path names, without following a link in its final component.
NodeOf(f, p) ==
    IF p = <<>> THEN [err |-> "none", path |-> <<>>]
    ELSE With(Canonicalize(f, Front(p)), LAMBDA par :
        IF par.err # "none" THEN par
        ELSE IF f[par.path].kind # "dir"
            THEN [err |-> "NotADirectory", path |-> par.path]
        ELSE IF Last(p) = ".."
            THEN [err |-> "none", path |-> IF par.path = <<>> THEN <<>> ELSE Front(par.path)]
        ELSE [err |-> "none", path |-> Append(par.path, Last(p))])

\* mkdir(2)
Mkdir(f, p) ==
    With(NodeOf(f, p), LAMBDA n :
        IF n.err # "none" THEN [err |-> n.err, fs |-> f]
        ELSE IF n.path \in DOMAIN f THEN [err |-> "AlreadyExists", fs |-> f]
        ELSE [err |-> "none", fs |-> f @@ (n.path :> DirNode)])

\* std::fs::create_dir_all: mkdir, on NotFound create the parent first and
\* retry; an existing directory is success.  Directories created before a
\* failure stay.
RECURSIVE create_dir_all(_, _)
create_dir_all(f, p) ==
    With(Mkdir(f, p), LAMBDA m :
        IF m.err = "none" THEN m
        ELSE IF m.err # "NotFound"
            THEN (IF IsDir(f, p) THEN [err |-> "none", fs |-> f] ELSE m)
        ELSE IF ~HasParent(p) THEN m
        ELSE With(create_dir_all(f, Parent(p)), LAMBDA up :
            IF up.err # "none" THEN up
            ELSE With(Mkdir(up.fs, p), LAMBDA m2 :
                IF m2.err = "none" THEN m2
                ELSE IF IsDir(up.fs, p) THEN [err |-> "none", fs |-> up.fs]
                ELSE m2)))

\* Mutant: the file is opened without truncate(true).
OpenTruncate_no_truncate(f, p, create) ==
    LET n == NodeOf(f, p) IN
    IF n.err # "none" THEN [err |-> n.err, fs |-> f, path |-> p]
    ELSE IF n.path \notin DOMAIN f
        THEN (IF create
                THEN [err |-> "none", fs |-> f @@ (n.path :> FileNode(<<>>)), path |-> n.path]
                ELSE [err |-> "NotFound", fs |-> f, path |-> n.path])
    ELSE LET c == Canonicalize(f, p) IN
        IF c.err # "none" THEN [err |-> c.err, fs |-> f, path |-> n.path]
        ELSE IF f[c.path].kind # "file" THEN [err |-> "IsADirectory", fs |-> f, path |-> c.path]
        ELSE [err |-> "none", fs |-> f, path |-> c.path]

\* OpenOptions::new().write(true).create(create).truncate(true).open(p):
\* an existing regular file is emptied, a missing one is created when
\* `create`; a directory cannot be opened for writing.
OpenTruncate(f, p, create) ==
    LET n == NodeOf(f, p) IN
    IF n.err # "none" THEN [err |-> n.err, fs |-> f, path |-> p]
    ELSE IF n.path \notin DOMAIN f
        THEN (IF create
                THEN [err |-> "none", fs |-> f @@ (n.path :> FileNode(<<>>)), path |-> n.path]
                ELSE [err |-> "NotFound", fs |-> f, path |-> n.path])
    ELSE LET c == Canonicalize(f, p) IN
        IF c.err # "none" THEN [err |-> c.err, fs |-> f, path |-> n.path]
        ELSE IF f[c.path].kind # "file" THEN [err |-> "IsADirectory", fs |-> f, path |-> c.path]
        ELSE [err |-> "none", fs |-> [f EXCEPT ![c.path] = FileNode(<<>>)], path |-> c.path]

\* Write::write_all on the file opened at canonical path p.
WriteAll(f, p, bytes) == [f EXCEPT ![p] = FileNode(f[p].data \o bytes)]

\* std::fs::remove_file on a canonical path.
RemoveFile(f, p) == [q \in DOMAIN f \ {p} |-> f[q]]

\* Mutant: only the directory's own entry is removed.
RemoveDirAll_top_only(f, p) == [q \in DOMAIN f \ {p} |-> f[q]]

\* std::fs::remove_dir_all on a canonical path: the directory and everything
\* beneath it (links are removed, not followed).
RemoveDirAll(f, p) == [q \in {x \in DOMAIN f : ~StartsWith(x, p)} |-> f[q]]

\* std::fs::copy(from, to): opens the source, then creates or truncates the
\* destination, then copies the bytes; when both are the same file the
\* truncation empties the source before it is read.
FsCopy(f, from, to) ==
    LET src == Canonicalize(f, from) IN
    IF src.err # "none" THEN [err |-> src.err, fs |-> f, bytes |-> 0]
    ELSE IF f[src.path].kind # "file" THEN [err |-> "InvalidInput", fs |-> f, bytes |-> 0]
    ELSE LET o == OpenTruncate(f, to, TRUE) IN
        IF o.err # "none" THEN [err |-> o.err, fs |-> f, bytes |-> 0]
        ELSE LET d == o.fs[src.path].data IN
            [err |-> "none", fs |-> WriteAll(o.fs, o.path, d), bytes |-> Len(d)]

\* std::fs::rename(from, to) (rename(2)): neither final component is followed
\* when it is a link; a regular file replaces a file or a link, never a
\* directory.
FsRename(f, from, to) ==
    LET a == NodeOf(f, from)
        b == NodeOf(f, to) IN
    IF a.err # "none" THEN [err |-> a.err, fs |-> f]
    ELSE IF a.path \notin DOMAIN f THEN [err |-> "NotFound", fs |-> f]
    ELSE IF b.err # "none" THEN [err |-> b.err, fs |-> f]
    ELSE IF a.path = b.path THEN [err |-> "none", fs |-> f]
    ELSE IF b.path \in DOMAIN f /\ f[b.path].kind = "dir"
        THEN [err |-> "IsADirectory", fs |-> f]
    ELSE IF f[a.path].kind = "dir" THEN [err |-> "Unsupported", fs |-> f]
    ELSE [err |-> "none",
          fs |-> [q \in (DOMAIN f \ {a.path}) \cup {b.path} |->
                    IF q = b.path THEN f[a.path] ELSE f[q]]]

(***************************************************************************)
(* Optional arguments (Option<T>) and results.                             *)
(***************************************************************************)
None == [some |-> FALSE, v |-> 0]

Some(x) == [some |-> TRUE, v |-> x]

UnwrapOr(o, d) == IF o.some THEN o.v ELSE d

\* Err(..) of an operation.
Fail(op, e) == [op |-> op, err |-> e]

(***************************************************************************)
(* LocalGitAwareFs::stat                                                   *)
(***************************************************************************)
\* Mutant: a missing path is checked as an existing one would be (inside
\* Root when relative, inside a repository when absolute).
stat_missing_checked(f, a) ==
    LET resolved == Join(a.path)
        meta == Metadata(f, resolved)
        canonical == Canonicalize(f, resolved).path
        par == Canonicalize(f, Front(resolved))
    IN
    IF meta.err = "none" THEN
        IF ~a.path.abs /\ ~StartsWith(canonical, Root)
            THEN Fail("stat", "PathEscapesRepo")
        ELSE [op |-> "stat", err |-> "none", path |-> Display(canonical),
              exists |-> TRUE, is_file |-> meta.is_file, is_dir |-> meta.is_dir,
              size |-> IF meta.is_file THEN Some(meta.len) ELSE None]
    ELSE IF meta.err = "NotFound" THEN
        IF par.err = "none" /\ ~a.path.abs /\ ~StartsWith(par.path, Root)
            THEN Fail("stat", "PathEscapesRepo")
        ELSE IF par.err = "none" /\ a.path.abs /\ ~find_git_root(f, par.path).found
            THEN Fail("stat", "PathNotInGitRepo")
        ELSE [op |-> "stat", err |-> "none", path |-> DisplayMissing(a.path),
              exists |-> FALSE, is_file |-> FALSE, is_dir |-> FALSE, size |-> None]
    ELSE Fail("stat", "FileMetadata")

stat(f, a) ==
    LET resolved == Join(a.path)
        meta == Metadata(f, resolved)
        canonical == Canonicalize(f, resolved).path
    IN
    IF meta.err = "none" THEN
        IF ~a.path.abs /\ ~StartsWith(canonical, Root)
            THEN Fail("stat", "PathEscapesRepo")
        ELSE [op |-> "stat", err |-> "none", path |-> Display(canonical),
              exists |-> TRUE, is_file |-> meta.is_file, is_dir |-> meta.is_dir,
              size |-> IF meta.is_file THEN Some(meta.len) ELSE None]
    ELSE IF meta.err = "NotFound" THEN
        [op |-> "stat", err |-> "none", path |-> DisplayMissing(a.path),
         exists |-> FALSE, is_file |-> FALSE, is_dir |-> FALSE, size |-> None]
    ELSE Fail("stat", "FileMetadata")

(***************************************************************************)
(* LocalGitAwareFs::path_info                                              *)
(***************************************************************************)
path_info(f, a) ==
    LET resolved == Join(a.path)
        meta == Metadata(f, resolved)
        canonical == Canonicalize(f, resolved).path
        repo == find_git_root(f, canonical)
    IN
    IF meta.err = "none" THEN
        [op |-> "path_info", err |-> "none", resolved_path |-> resolved,
         exists |-> TRUE, is_file |-> meta.is_file, is_dir |-> meta.is_dir,
         is_absolute |-> a.path.abs, canonical_path |-> Some(canonical),
         repo_root |-> IF repo.found THEN Some(repo.path) ELSE None]
    ELSE IF meta.err = "NotFound" THEN
        [op |-> "path_info", err |-> "none", resolved_path |-> resolved,
         exists |-> FALSE, is_file |-> FALSE, is_dir |-> FALSE,
         is_absolute |-> a.path.abs, canonical_path |-> None, repo_root |-> None]
    ELSE Fail("path_info", "FileMetadata")

(***************************************************************************)
(* LocalGitAwareFs::create_file.  Returns [res, fs].                       *)
(***************************************************************************)
create_file(f, a) ==
    LET overwrite == UnwrapOr(a.overwrite, FALSE)
        create_parents == UnwrapOr(a.create_parents, FALSE)
        resolved == Join(a.path)
        mk == IF create_parents /\ HasParent(resolved)
                THEN create_dir_all(f, Parent(resolved))
                ELSE [err |-> "none", fs |-> f]
        f1 == mk.fs
        cp == Canonicalize(f1, Parent(resolved))
        existed == Metadata(f1, resolved)
        o == OpenTruncate(f1, resolved, TRUE)
        f2 == IF a.content.some THEN WriteAll(o.fs, o.path, a.content.v) ELSE o.fs
        canon == Canonicalize(f2, resolved)
    IN
    IF mk.err # "none" THEN [res |-> Fail("create_file", "CreateParents"), fs |-> f1]
    ELSE IF HasParent(resolved) /\ cp.err # "none"
        THEN [res |-> Fail("create_file", "CanonicalizePath"), fs |-> f1]
    ELSE IF HasParent(resolved) /\ ~a.path.abs /\ ~StartsWith(cp.path, Root)
        THEN [res |-> Fail("create_file", "PathEscapesRepo"), fs |-> f1]
    ELSE IF HasParent(resolved) /\ a.path.abs /\ ~find_git_root(f1, cp.path).found
        THEN [res |-> Fail("create_file", "WritePathNotInGit"), fs |-> f1]
    ELSE IF existed.err = "none" /\ existed.is_dir
        THEN [res |-> Fail("create_file", "DestinationExists"), fs |-> f1]
    ELSE IF existed.err = "none" /\ ~overwrite
        THEN [res |-> Fail("create_file", "DestinationExists"), fs |-> f1]
    ELSE IF o.err # "none" THEN [res |-> Fail("create_file", "OpenFile"), fs |-> f1]
    ELSE [res |-> [op |-> "create_file", err |-> "none",
                   path |-> Display(IF canon.err = "none" THEN canon.path ELSE resolved),
                   created |-> existed.err # "none",
                   overwritten |-> existed.err = "none"],
          fs |-> f2]

\* Mutant: force defaults to true.
delete_path_force_by_default(f, a) ==
    LET recursive == UnwrapOr(a.recursive, FALSE)
        force == UnwrapOr(a.force, TRUE)
        resolved == Join(a.path)
        meta == Metadata(f, resolved)
        canonical == Canonicalize(f, resolved).path
    IN
    IF meta.err = "none" THEN
        IF ~a.path.abs /\ ~StartsWith(canonical, Root)
            THEN [res |-> Fail("delete_path", "PathEscapesRepo"), fs |-> f]
        ELSE IF a.path.abs /\ ~find_git_root(f, canonical).found
            THEN [res |-> Fail("delete_path", "WritePathNotInGit"), fs |-> f]
        ELSE IF meta.is_dir /\ ~recursive
            THEN [res |-> Fail("delete_path", "DeleteDirNonRecursive"), fs |-> f]
        ELSE [res |-> [op |-> "delete_path", err |-> "none", path |-> Display(canonical),
                       existed |-> TRUE, is_dir |-> meta.is_dir, removed |-> TRUE,
                       recursive |-> meta.is_dir /\ recursive],
              fs |-> IF meta.is_dir THEN RemoveDirAll(f, canonical)
                     ELSE RemoveFile(f, canonical)]
    ELSE IF meta.err = "NotFound" THEN
        IF ~force THEN [res |-> Fail("delete_path", "FileMetadata"), fs |-> f]
        ELSE [res |-> [op |-> "delete_path", err |-> "none",
                       path |-> DisplayMissing(a.path), existed |-> FALSE,
                       is_dir |-> FALSE, removed |-> FALSE, recursive |-> FALSE],
              fs |-> f]
    ELSE [res |-> Fail("delete_path", "FileMetadata"), fs |-> f]

(***************************************************************************)
(* LocalGitAwareFs::delete_path.  Returns [res, fs].                       *)
(***************************************************************************)
delete_path(f, a) ==
    LET recursive == UnwrapOr(a.recursive, FALSE)
        force == UnwrapOr(a.force, FALSE)
        resolved == Join(a.path)
        meta == Metadata(f, resolved)
        canonical == Canonicalize(f, resolved).path
    IN
    IF meta.err = "none" THEN
        IF ~a.path.abs /\ ~StartsWith(canonical, Root)
            THEN [res |-> Fail("delete_path", "PathEscapesRepo"), fs |-> f]
        ELSE IF a.path.abs /\ ~find_git_root(f, canonical).found
            THEN [res |-> Fail("delete_path", "WritePathNotInGit"), fs |-> f]
        ELSE IF meta.is_dir /\ ~recursive
            THEN [res |-> Fail("delete_path", "DeleteDirNonRecursive"), fs |-> f]
        ELSE [res |-> [op |-> "delete_path", err |-> "none", path |-> Display(canonical),
                       existed |-> TRUE, is_dir |-> meta.is_dir, removed |-> TRUE,
                       recursive |-> meta.is_dir /\ recursive],
              fs |-> IF meta.is_dir THEN RemoveDirAll(f, canonical)
                     ELSE RemoveFile(f, canonical)]
    ELSE IF meta.err = "NotFound" THEN
        IF ~force THEN [res |-> Fail("delete_path", "FileMetadata"), fs |-> f]
        ELSE [res |-> [op |-> "delete_path", err |-> "none",
                       path |-> DisplayMissing(a.path), existed |-> FALSE,
                       is_dir |-> FALSE, removed |-> FALSE, recursive |-> FALSE],
              fs |-> f]
    ELSE [res |-> Fail("delete_path", "FileMetadata"), fs |-> f]

(***************************************************************************)
(* LocalGitAwareFs::copy_path and LocalGitAwareFs::move_path.  The two     *)
(* share everything between the check of the source and the final          *)
(* std::fs call.  Return [res, fs].                                        *)
(***************************************************************************)
\* Mutant: the checks without the comparison of the two repository roots.
TransferChecks_any_repo(f, a, across) ==
    LET overwrite == UnwrapOr(a.overwrite, FALSE)
        create_parents == UnwrapOr(a.create_parents, TRUE)
        from_resolved == Join(a.from)
        to_resolved == Join(a.to)
        from_canonical == Canonicalize(f, from_resolved)
        from_repo_root == find_git_root(f, from_canonical.path)
    IN
    IF from_canonical.err # "none" THEN [err |-> "CanonicalizePath", fs |-> f]
    ELSE IF ~from_repo_root.found THEN [err |-> "WritePathNotInGit", fs |-> f]
    ELSE With(IF create_parents /\ HasParent(to_resolved)
                THEN create_dir_all(f, Parent(to_resolved))
                ELSE [err |-> "none", fs |-> f], LAMBDA mk :
    LET f1 == mk.fs
        to_parent_canonical == Canonicalize(f1, Parent(to_resolved))
        to_repo_root == find_git_root(f1, to_parent_canonical.path)
        existing_to == Metadata(f1, to_resolved)
    IN
    IF mk.err # "none" THEN [err |-> "CreateParents", fs |-> f1]
    ELSE IF ~HasParent(to_resolved) \/ to_parent_canonical.err # "none"
        THEN [err |-> "CanonicalizePath", fs |-> f1]
    ELSE IF ~to_repo_root.found THEN [err |-> "WritePathNotInGit", fs |-> f1]
    ELSE IF existing_to.err = "none" /\ ~overwrite
        THEN [err |-> "DestinationExists", fs |-> f1]
    ELSE [err |-> "none", fs |-> f1])

\* From the canonicalization of the source to the overwrite check: the error
\* raised, if any, and the filesystem after the optional creation of the
\* destination's parents.
TransferChecks(f, a, across) ==
    LET overwrite == UnwrapOr(a.overwrite, FALSE)
        create_parents == UnwrapOr(a.create_parents, TRUE)
        from_resolved == Join(a.from)
        to_resolved == Join(a.to)
        from_canonical == Canonicalize(f, from_resolved)
        from_repo_root == find_git_root(f, from_canonical.path)
    IN
    IF from_canonical.err # "none" THEN [err |-> "CanonicalizePath", fs |-> f]
    ELSE IF ~from_repo_root.found THEN [err |-> "WritePathNotInGit", fs |-> f]
    ELSE With(IF create_parents /\ HasParent(to_resolved)
                THEN create_dir_all(f, Parent(to_resolved))
                ELSE [err |-> "none", fs |-> f], LAMBDA mk :
    LET f1 == mk.fs
        to_parent_canonical == Canonicalize(f1, Parent(to_resolved))
        to_repo_root == find_git_root(f1, to_parent_canonical.path)
        existing_to == Metadata(f1, to_resolved)
    IN
    IF mk.err # "none" THEN [err |-> "CreateParents", fs |-> f1]
    ELSE IF ~HasParent(to_resolved) \/ to_parent_canonical.err # "none"
        THEN [err |-> "CanonicalizePath", fs |-> f1]
    ELSE IF ~to_repo_root.found THEN [err |-> "WritePathNotInGit", fs |-> f1]
    ELSE IF from_repo_root.path # to_repo_root.path THEN [err |-> across, fs |-> f1]
    ELSE IF existing_to.err = "none" /\ ~overwrite
        THEN [err |-> "DestinationExists", fs |-> f1]
    ELSE [err |-> "none", fs |-> f1])

copy_path(f, a) ==
    LET from_resolved == Join(a.from)
        to_resolved == Join(a.to)
        from_meta == Metadata(f, from_resolved)
    IN
    IF from_meta.err # "none" THEN [res |-> Fail("copy_path", "FileMetadata"), fs |-> f]
    ELSE IF ~from_meta.is_file THEN [res |-> Fail("copy_path", "CopyPath"), fs |-> f]
    ELSE With(TransferChecks(f, a, "CopyAcrossRepos"), LAMBDA chk :
    IF chk.err # "none" THEN [res |-> Fail("copy_path", chk.err), fs |-> chk.fs]
    ELSE With(FsCopy(chk.fs, from_resolved, to_resolved), LAMBDA cp :
    IF cp.err # "none" THEN [res |-> Fail("copy_path", "CopyPath"), fs |-> cp.fs]
    ELSE [res |-> [op |-> "copy_path", err |-> "none",
                   from |-> Display(Canonicalize(f, from_resolved).path),
                   to |-> Display(to_resolved),
                   bytes_copied |-> Some(cp.bytes),
                   overwritten |-> Exists(chk.fs, to_resolved)],
          fs |-> cp.fs]))

\* Mutant: the destination's parents are created before the source is
\* looked at.
move_path_parents_first(f, a) ==
    LET from_resolved == Join(a.from)
        to_resolved == Join(a.to)
        from_meta == Metadata(f, from_resolved)
    IN
    IF from_meta.err = "NotFound"
        THEN [res |-> [op |-> "move_path", err |-> "none", from |-> Abs(from_resolved),
                       to |-> Abs(to_resolved), existed |-> FALSE,
                       overwritten |-> FALSE, recursive |-> FALSE],
              fs |-> IF UnwrapOr(a.create_parents, TRUE) /\ HasParent(to_resolved)
                       THEN create_dir_all(f, Parent(to_resolved)).fs
                       ELSE f]
    ELSE IF from_meta.err # "none" THEN [res |-> Fail("move_path", "FileMetadata"), fs |-> f]
    ELSE IF ~from_meta.is_file THEN [res |-> Fail("move_path", "MovePath"), fs |-> f]
    ELSE With(TransferChecks(f, a, "MoveAcrossRepos"), LAMBDA chk :
    IF chk.err # "none" THEN [res |-> Fail("move_path", chk.err), fs |-> chk.fs]
    ELSE With(FsRename(chk.fs, from_resolved, to_resolved), LAMBDA mv :
    IF mv.err # "none" THEN [res |-> Fail("move_path", "MovePath"), fs |-> mv.fs]
    ELSE [res |-> [op |-> "move_path", err |-> "none",
                   from |-> Display(Canonicalize(f, from_resolved).path),
                   to |-> Display(to_resolved), existed |-> TRUE,
                   overwritten |-> Exists(chk.fs, to_resolved),
                   recursive |-> FALSE],
          fs |-> mv.fs]))

move_path(f, a) ==
    LET from_resolved == Join(a.from)
        to_resolved == Join(a.to)
        from_meta == Metadata(f, from_resolved)
    IN
    IF from_meta.err = "NotFound"
        THEN [res |-> [op |-> "move_path", err |-> "none", from |-> Abs(from_resolved),
                       to |-> Abs(to_resolved), existed |-> FALSE,
                       overwritten |-> FALSE, recursive |-> FALSE],
              fs |-> f]
    ELSE IF from_meta.err # "none" THEN [res |-> Fail("move_path", "FileMetadata"), fs |-> f]
    ELSE IF ~from_meta.is_file THEN [res |-> Fail("move_path", "MovePath"), fs |-> f]
    ELSE With(TransferChecks(f, a, "MoveAcrossRepos"), LAMBDA chk :
    IF chk.err # "none" THEN [res |-> Fail("move_path", chk.err), fs |-> chk.fs]
    ELSE With(FsRename(chk.fs, from_resolved, to_resolved), LAMBDA mv :
    IF mv.err # "none" THEN [res |-> Fail("move_path", "MovePath"), fs |-> mv.fs]
    ELSE [res |-> [op |-> "move_path", err |-> "none",
                   from |-> Display(Canonicalize(f, from_resolved).path),
                   to |-> Display(to_resolved), existed |-> TRUE,
                   overwritten |-> Exists(chk.fs, to_resolved),
                   recursive |-> FALSE],
          fs |-> mv.fs]))

(***************************************************************************)
(* LocalGitAwareFs::overwrite_file.  Returns [res, fs].                    *)
(***************************************************************************)
\* Mutant: a missing target is created.
overwrite_file_or_create(f, a) ==
    LET resolved == Join(a.path)
        meta == Metadata(f, resolved)
        cp == Canonicalize(f, Parent(resolved))
        o == OpenTruncate(f, resolved, TRUE)
        f2 == WriteAll(o.fs, o.path, a.content)
        canon == Canonicalize(f2, resolved)
    IN
    IF meta.err \notin {"none", "NotFound"}
        THEN [res |-> Fail("overwrite_file", "FileMetadata"), fs |-> f]
    ELSE IF meta.err = "none" /\ ~meta.is_file
        THEN [res |-> Fail("overwrite_file", "WriteFile"), fs |-> f]
    ELSE IF HasParent(resolved) /\ cp.err # "none"
        THEN [res |-> Fail("overwrite_file", "CanonicalizePath"), fs |-> f]
    ELSE IF HasParent(resolved) /\ ~a.path.abs /\ ~StartsWith(cp.path, Root)
        THEN [res |-> Fail("overwrite_file", "PathEscapesRepo"), fs |-> f]
    ELSE IF HasParent(resolved) /\ a.path.abs /\ ~find_git_root(f, cp.path).found
        THEN [res |-> Fail("overwrite_file", "WritePathNotInGit"), fs |-> f]
    ELSE IF o.err # "none" THEN [res |-> Fail("overwrite_file", "OpenFile"), fs |-> f]
    ELSE [res |-> [op |-> "overwrite_file", err |-> "none",
                   path |-> Display(IF canon.err = "none" THEN canon.path ELSE resolved)],
          fs |-> f2]

overwrite_file(f, a) ==
    LET resolved == Join(a.path)
        meta == Metadata(f, resolved)
        cp == Canonicalize(f, Parent(resolved))
        o == OpenTruncate(f, resolved, FALSE)
        f2 == WriteAll(o.fs, o.path, a.content)
        canon == Canonicalize(f2, resolved)
    IN
    IF meta.err # "none" THEN [res |-> Fail("overwrite_file", "FileMetadata"), fs |-> f]
    ELSE IF ~meta.is_file THEN [res |-> Fail("overwrite_file", "WriteFile"), fs |-> f]
    ELSE IF HasParent(resolved) /\ cp.err # "none"
        THEN [res |-> Fail("overwrite_file", "CanonicalizePath"), fs |-> f]
    ELSE IF HasParent(resolved) /\ ~a.path.abs /\ ~StartsWith(cp.path, Root)
        THEN [res |-> Fail("overwrite_file", "PathEscapesRepo"), fs |-> f]
    ELSE IF HasParent(resolved) /\ a.path.abs /\ ~find_git_root(f, cp.path).found
        THEN [res |-> Fail("overwrite_file", "WritePathNotInGit"), fs |-> f]
    ELSE IF o.err # "none" THEN [res |-> Fail("overwrite_file", "OpenFile"), fs |-> f]
    ELSE [res |-> [op |-> "overwrite_file", err |-> "none",
                   path |-> Display(IF canon.err = "none" THEN canon.path ELSE resolved)],
          fs |-> f2]

(***************************************************************************)
(* LocalGitAwareFs::read_file, read_file_bytes, read_file_lines.           *)
(* File content is a sequence of bytes; "C3" "A9" is the one two-byte      *)
(* UTF-8 character of the model, every other byte is ASCII.                *)
(***************************************************************************)
DEFAULT_MAX_READ_BYTES == 65536

DEFAULT_MAX_READ_LINES == 200

\* String::from_utf8 succeeds.
RECURSIVE Utf8Valid(_)
Utf8Valid(b) ==
    IF b = <<>> THEN TRUE
    ELSE IF Head(b) = "C3"
        THEN Len(b) >= 2 /\ b[2] = "A9" /\ Utf8Valid(Tail(Tail(b)))
    ELSE Head(b) # "A9" /\ Utf8Valid(Tail(b))

Min(x, y) == IF x <= y THEN x ELSE y

Max(x, y) == IF x >= y THEN x ELSE y

\* BufRead::lines: the content split after every "\n"; each line loses its
\* "\n" and a "\r" right before it; bytes after the last "\n" are a line.
RECURSIVE SplitLines(_, _)
SplitLines(b, cur) ==
    IF b = <<>> THEN (IF cur = <<>> THEN <<>> ELSE <<cur>>)
    ELSE IF Head(b) = "\n"
        THEN <<IF cur # <<>> /\ Last(cur) = "\r" THEN Front(cur) ELSE cur>>
             \o SplitLines(Tail(b), <<>>)
    ELSE SplitLines(Tail(b), Append(cur, Head(b)))

read_file_bytes(f, abs_path, a) ==
    LET offset == UnwrapOr(a.offset_bytes, 0)
        max_bytes == UnwrapOr(a.max_bytes, DEFAULT_MAX_READ_BYTES)
        node == f[abs_path]
        file_len == Len(node.data)
        buf == SubSeq(node.data, offset + 1, Min(offset + max_bytes, file_len))
    IN
    IF node.kind # "file" THEN Fail("read_file", "ReadFile")
    ELSE IF ~Utf8Valid(buf) THEN Fail("read_file", "FileNotUtf8")
    ELSE [op |-> "read_file", err |-> "none", path |-> Display(abs_path),
          content |-> buf, is_truncated |-> offset + max_bytes < file_len,
          range_type |-> "bytes"]

\* Mutant: the loop stops once more than max_lines lines are collected.
RECURSIVE ReadLinesLoop_past_cap(_, _, _, _, _, _)
ReadLinesLoop_past_cap(lines, i, start_line, max_lines, content, collected) ==
    IF i > Len(lines) THEN [err |-> "none", content |-> content, is_truncated |-> FALSE]
    ELSE IF ~Utf8Valid(lines[i])
        THEN [err |-> "ReadLine", content |-> content, is_truncated |-> FALSE]
    ELSE IF i < start_line
        THEN ReadLinesLoop_past_cap(lines, i + 1, start_line, max_lines, content, collected)
    ELSE IF collected + 1 > max_lines
        THEN [err |-> "none", content |-> content \o lines[i] \o <<"\n">>,
              is_truncated |-> TRUE]
    ELSE ReadLinesLoop_past_cap(lines, i + 1, start_line, max_lines,
                                content \o lines[i] \o <<"\n">>, collected + 1)

\* The `for line_res in reader.lines()` loop of read_file_lines, from line i.
RECURSIVE ReadLinesLoop(_, _, _, _, _, _)
ReadLinesLoop(lines, i, start_line, max_lines, content, collected) ==
    IF i > Len(lines) THEN [err |-> "none", content |-> content, is_truncated |-> FALSE]
    ELSE IF ~Utf8Valid(lines[i])
        THEN [err |-> "ReadLine", content |-> content, is_truncated |-> FALSE]
    ELSE IF i < start_line
        THEN ReadLinesLoop(lines, i + 1, start_line, max_lines, content, collected)
    ELSE IF collected + 1 >= max_lines
        THEN [err |-> "none", content |-> content \o lines[i] \o <<"\n">>,
              is_truncated |-> TRUE]
    ELSE ReadLinesLoop(lines, i + 1, start_line, max_lines,
                       content \o lines[i] \o <<"\n">>, collected + 1)

read_file_lines(f, abs_path, a) ==
    LET start_line == UnwrapOr(a.start_line, 1)
        max_lines == UnwrapOr(a.max_lines, DEFAULT_MAX_READ_LINES)
        node == f[abs_path]
        r == ReadLinesLoop(SplitLines(node.data, <<>>), 1, start_line, max_lines, <<>>, 0)
    IN
    IF start_line = 0 THEN Fail("read_file", "StartLineMustBePositive")
    ELSE IF node.kind # "file" THEN Fail("read_file", "ReadLine")
    ELSE IF r.err # "none" THEN Fail("read_file", r.err)
    ELSE [op |-> "read_file", err |-> "none", path |-> Display(abs_path),
          content |-> r.content, is_truncated |-> r.is_truncated,
          range_type |-> "lines"]

read_file(f, a) ==
    LET abs_path == resolve_path(f, a.path)
        has_byte_params == a.offset_bytes.some \/ a.max_bytes.some
        has_line_params == a.start_line.some \/ a.max_lines.some
        range_type == IF a.range_type.some THEN a.range_type.v
                      ELSE IF has_line_params THEN "lines" ELSE "bytes"
    IN
    IF abs_path.err # "none" THEN Fail("read_file", abs_path.err)
    ELSE IF range_type = "bytes" /\ has_line_params
        THEN Fail("read_file", "ReadFileLinesWithBytes")
    ELSE IF range_type = "lines" /\ has_byte_params
        THEN Fail("read_file", "ReadFileBytesWithLines")
    ELSE IF range_type = "bytes" THEN read_file_bytes(f, abs_path.path, a)
    ELSE read_file_lines(f, abs_path.path, a)

(***************************************************************************)
(* Strings.  A component name is spelled by Chars; a relative path is the  *)
(* string of its components joined by "/" (Path::to_string_lossy).         *)
(***************************************************************************)
Chars(n) ==
    CASE n = "ab" -> <<"a", "b">>
      [] n = ".git" -> <<".", "g", "i", "t">>
      [] n = ".." -> <<".", ".">>
      [] n = "zz" -> <<"z", "z">>
      [] OTHER -> <<n>>

\* The byte of an ASCII character.
Code(c) ==
    CASE c = "." -> 46 [] c = "/" -> 47
      [] c = "A" -> 65 [] c = "B" -> 66 [] c = "N" -> 78
      [] c = "a" -> 97 [] c = "b" -> 98 [] c = "d" -> 100 [] c = "g" -> 103
      [] c = "h" -> 104 [] c = "i" -> 105 [] c = "k" -> 107 [] c = "l" -> 108
      [] c = "n" -> 110 [] c = "s" -> 115 [] c = "t" -> 116 [] c = "w" -> 119
      [] c = "x" -> 120 [] c = "z" -> 122
      [] OTHER -> 63

\* The ASCII lower-case form of a byte.
Lower(c) ==
    CASE c = "A" -> "a" [] c = "B" -> "b" [] c = "N" -> "n" [] OTHER -> c

RECURSIVE PathStr(_)
PathStr(p) ==
    IF p = <<>> THEN <<>>
    ELSE IF Len(p) = 1 THEN Chars(p[1])
    ELSE Chars(p[1]) \o <<"/">> \o PathStr(Tail(p))

\* str::cmp: byte-lexicographic order, a proper prefix first.
RECURSIVE StrLess(_, _)
StrLess(x, y) ==
    IF y = <<>> THEN FALSE
    ELSE IF x = <<>> THEN TRUE
    ELSE IF Code(Head(x)) # Code(Head(y)) THEN Code(Head(x)) < Code(Head(y))
    ELSE StrLess(Tail(x), Tail(y))

(***************************************************************************)
(* Pattern matching.  A pattern is a sequence of tokens.                   *)
(***************************************************************************)
\* globset::Glob: "*" matches any run of characters ("/" included), any
\* other token matches itself; the whole string must match.  "[" alone is
\* an unclosed character class: Glob::new fails.
GlobValid(g) == \A i \in 1..Len(g) : g[i] # "["

RECURSIVE GlobMatch(_, _)
GlobMatch(g, str) ==
    IF g = <<>> THEN str = <<>>
    ELSE IF Head(g) = "*"
        THEN GlobMatch(Tail(g), str) \/ (str # <<>> /\ GlobMatch(g, Tail(str)))
    ELSE str # <<>> /\ Head(str) = Head(g) /\ GlobMatch(Tail(g), Tail(str))

\* LocalGitAwareFs::build_globset: None for no patterns, else the compiled
\* set, or the error of the first invalid pattern.
build_globset(patterns) ==
    IF ~patterns.some \/ patterns.v = <<>> THEN [err |-> "none", set |-> None]
    ELSE IF \E i \in 1..Len(patterns.v) : ~GlobValid(patterns.v[i])
        THEN [err |-> "InvalidGlobPattern", set |-> None]
    ELSE [err |-> "none", set |-> Some(patterns.v)]

\* GlobSet::is_match
GlobSetMatch(set, str) == \E i \in 1..Len(set) : GlobMatch(set[i], str)

\* The include/exclude test shared by list_files, find_files, search_text:
\* TRUE when the entry survives the filters.
PassesGlobs(include_globs, exclude_globs, rel_str) ==
    /\ ~(exclude_globs.some /\ GlobSetMatch(exclude_globs.v, rel_str))
    /\ ~(include_globs.some /\ ~GlobSetMatch(include_globs.v, rel_str))

\* A compiled regex: literal tokens, "." (any byte but "\n") when not
\* escaped; a lone "(" does not compile.  regex::escape makes every token
\* literal.
CompileRegex(query, literal, case_insensitive) ==
    [valid |-> literal \/ \A i \in 1..Len(query) : query[i] # "(",
     toks |-> query, literal |-> literal, ci |-> case_insensitive]

TokMatches(re, tok, b) ==
    IF ~re.literal /\ tok = "." THEN b # "\n"
    ELSE IF re.ci THEN Lower(tok) = Lower(b)
    ELSE tok = b

\* The pattern matches the bytes of hay starting at position i (1-based).
MatchesAt(re, hay, i) ==
    /\ i + Len(re.toks) - 1 <= Len(hay)
    /\ \A k \in 1..Len(re.toks) : TokMatches(re, re.toks[k], hay[i + k - 1])

\* Regex::is_match
IsMatch(re, hay) == \E i \in 1..(Len(hay) + 1) : MatchesAt(re, hay, i)

\* Mutant: the offset of the rightmost match.
FindStart_rightmost(re, hay) ==
    (CHOOSE i \in 1..(Len(hay) + 1) :
        MatchesAt(re, hay, i) /\ \A j \in (i + 1)..(Len(hay) + 1) : ~MatchesAt(re, hay, j)) - 1

\* Regex::find(..).start(): the 0-based offset of the leftmost match.
FindStart(re, hay) ==
    (CHOOSE i \in 1..(Len(hay) + 1) :
        MatchesAt(re, hay, i) /\ \A j \in 1..(i - 1) : ~MatchesAt(re, hay, j)) - 1

(***************************************************************************)
(* Directory traversal (ignore::WalkBuilder with standard_filters(true)):  *)
(* the start path itself, then everything beneath it except hidden         *)
(* entries; links are reported, not followed; max_depth(1) when not        *)
(* recursive.  The tree of the model holds no ignore files.                *)
(***************************************************************************)
\* u32::saturating_add.  Every u32 of the model stays far below u32::MAX
\* (which TLC's integers cannot hold), where the sum never saturates.
SatAdd(x, y) == x + y

Hidden(n) == Head(Chars(n)) = "."

\* The entries the walker reports after directory `dir`.
WalkChildren(f, dir) ==
    {q \in DOMAIN f : q # <<>> /\ Front(q) = dir /\ ~Hidden(Last(q))}

\* Whether the walker descends into entry q of a walk from `start`.
Descends(f, start, recursive, q) ==
    /\ f[q].kind = "dir"
    /\ (recursive \/ Len(q) - Len(start) < 1)

\* A set of sibling paths in the order the directory lists them (here: by name).
RECURSIVE InDirOrder(_)
InDirOrder(qs) ==
    IF qs = {} THEN <<>>
    ELSE LET m == CHOOSE q \in qs :
                    \A r \in qs \ {q} : StrLess(Chars(Last(q)), Chars(Last(r)))
         IN <<m>> \o InDirOrder(qs \ {m})

\* The sequential walk (WalkBuilder::build): depth first, a directory before
\* its content.
RECURSIVE WalkFrom(_, _, _, _), WalkEach(_, _, _, _)
WalkFrom(f, start, recursive, q) ==
    <<q>> \o (IF Descends(f, start, recursive, q)
                THEN WalkEach(f, start, recursive, InDirOrder(WalkChildren(f, q)))
                ELSE <<>>)

WalkEach(f, start, recursive, qs) ==
    IF qs = <<>> THEN <<>>
    ELSE WalkFrom(f, start, recursive, Head(qs))
         \o WalkEach(f, start, recursive, Tail(qs))

\* The start path of list_files and find_files (`start_path`), or the error.
StartPath(f, root) ==
    LET root_arg == UnwrapOr(root, Rel(<<>>))
        c == Canonicalize(f, Join(root_arg))
    IN
    IF c.err # "none" THEN [err |-> "CanonicalizePath", path |-> Join(root_arg)]
    ELSE IF ~root_arg.abs /\ ~StartsWith(c.path, Root)
        THEN [err |-> "PathEscapesRepo", path |-> c.path]
    ELSE [err |-> "none", path |-> c.path]

(***************************************************************************)
(* LocalGitAwareFs::list_files                                             *)
(***************************************************************************)
DEFAULT_LIST_MAX_RESULTS == 500

\* The `for result in builder.build()` loop from entry i of the walk on.
\* `visited` counts the entries the loop has taken from the walker.
RECURSIVE ListLoop(_, _, _, _, _, _, _)
ListLoop(f, order, i, start, o, entries, seen) ==
    IF i > Len(order)
        THEN [entries |-> entries, hit_limit |-> FALSE, visited |-> Len(order)]
    ELSE LET path == order[i]
             rel == StripPrefix(path, start)
             is_dir == f[path].kind = "dir"
             meta == Metadata(f, path)
             seen1 == SatAdd(seen, 1)
             entry == [path |-> rel, is_dir |-> is_dir,
                       size |-> IF o.include_metadata /\ meta.err = "none"
                                  THEN Some(meta.len) ELSE None]
         IN
         IF path = start THEN ListLoop(f, order, i + 1, start, o, entries, seen)
         ELSE IF is_dir /\ ~o.include_dirs
             THEN ListLoop(f, order, i + 1, start, o, entries, seen)
         ELSE IF ~PassesGlobs(o.include_globs, o.exclude_globs, PathStr(rel))
             THEN ListLoop(f, order, i + 1, start, o, entries, seen)
         ELSE IF seen1 <= o.skip
             THEN ListLoop(f, order, i + 1, start, o, entries, seen1)
         ELSE IF Len(entries) + 1 >= o.max_results
             THEN [entries |-> Append(entries, entry), hit_limit |-> TRUE, visited |-> i]
         ELSE ListLoop(f, order, i + 1, start, o, Append(entries, entry), seen1)

list_files(f, a) ==
    LET start_path == StartPath(f, a.root)
        recursive == UnwrapOr(a.recursive, TRUE)
        inc == build_globset(a.include_globs)
        exc == build_globset(a.exclude_globs)
        o == [include_dirs |-> UnwrapOr(a.include_dirs, FALSE),
              max_results |-> UnwrapOr(a.max_results, DEFAULT_LIST_MAX_RESULTS),
              skip |-> UnwrapOr(a.skip, 0),
              include_metadata |-> UnwrapOr(a.include_metadata, FALSE),
              include_globs |-> inc.set, exclude_globs |-> exc.set]
        r == ListLoop(f, WalkFrom(f, start_path.path, recursive, start_path.path), 1,
                      start_path.path, o, <<>>, 0)
    IN
    IF start_path.err # "none" THEN Fail("list_files", start_path.err)
    ELSE IF ~IsDir(f, start_path.path) THEN Fail("list_files", "ListRootNotDirectory")
    ELSE IF UnwrapOr(a.root, Rel(<<>>)).abs /\ ~find_git_root(f, start_path.path).found
        THEN Fail("list_files", "ListRootNotInGit")
    ELSE IF inc.err # "none" THEN Fail("list_files", inc.err)
    ELSE IF exc.err # "none" THEN Fail("list_files", exc.err)
    ELSE [op |-> "list_files", err |-> "none", entries |-> r.entries,
          has_more |-> r.hit_limit]

\* The number of entries list_files takes from the walker.
list_files_visited(f, a) ==
    LET start_path == StartPath(f, a.root)
        o == [include_dirs |-> UnwrapOr(a.include_dirs, FALSE),
              max_results |-> UnwrapOr(a.max_results, DEFAULT_LIST_MAX_RESULTS),
              skip |-> UnwrapOr(a.skip, 0),
              include_metadata |-> UnwrapOr(a.include_metadata, FALSE),
              include_globs |-> build_globset(a.include_globs).set,
              exclude_globs |-> build_globset(a.exclude_globs).set]
    IN
    IF list_files(f, a).err # "none" THEN 0
    ELSE ListLoop(f, WalkFrom(f, start_path.path, UnwrapOr(a.recursive, TRUE),
                              start_path.path), 1, start_path.path, o, <<>>, 0).visited

(***************************************************************************)
(* LocalGitAwareFs::find_files: the part before the parallel walk.         *)
(* Returns [err, done, ...]: an error, or `done` when the call returns     *)
(* before walking, or the values the walk callback captures.               *)
(***************************************************************************)
DEFAULT_MAX_SEARCH_RESULTS == 200

DEFAULT_SEARCH_CONTEXT_LINES == 2

find_files_setup(f, a) ==
    LET start_path == StartPath(f, a.root)
        max_results == UnwrapOr(a.max_results, DEFAULT_MAX_SEARCH_RESULTS)
        skip == UnwrapOr(a.skip, 0)
        inc == build_globset(a.include_globs)
        exc == build_globset(a.exclude_globs)
        total_needed == SatAdd(skip, max_results)
        matcher == CompileRegex(a.query, TRUE, ~UnwrapOr(a.case_sensitive, FALSE))
    IN
    IF start_path.err # "none" THEN [err |-> start_path.err, done |-> TRUE]
    ELSE IF ~IsDir(f, start_path.path) THEN [err |-> "FindRootNotDirectory", done |-> TRUE]
    ELSE IF UnwrapOr(a.root, Rel(<<>>)).abs /\ ~find_git_root(f, start_path.path).found
        THEN [err |-> "FindRootNotInGit", done |-> TRUE]
    ELSE IF inc.err # "none" THEN [err |-> inc.err, done |-> TRUE]
    ELSE IF exc.err # "none" THEN [err |-> exc.err, done |-> TRUE]
    ELSE IF total_needed = 0 THEN [err |-> "none", done |-> TRUE]
    ELSE IF ~matcher.valid THEN [err |-> "InvalidFindFilesRegex", done |-> TRUE]
    ELSE [err |-> "none", done |-> FALSE,
          start_path |-> start_path.path,
          recursive |-> UnwrapOr(a.recursive, TRUE),
          include_dirs |-> UnwrapOr(a.include_dirs, TRUE),
          max_results |-> max_results, skip |-> skip,
          match_mode |-> UnwrapOr(a.match_mode, "name"),
          include_globs |-> inc.set, exclude_globs |-> exc.set,
          total_needed |-> total_needed, matcher |-> matcher]

\* The walk callback of find_files up to `matcher.is_match(haystack)`:
\* TRUE when the entry is a match.
FindEntryMatches(f, c, path) ==
    LET is_dir == f[path].kind = "dir"
        rel_str == PathStr(StripPrefix(path, c.start_path))
        haystack == IF c.match_mode = "name" THEN Chars(Last(path)) ELSE rel_str
    IN
    /\ path # c.start_path
    /\ ~(is_dir /\ ~c.include_dirs)
    /\ PassesGlobs(c.include_globs, c.exclude_globs, rel_str)
    /\ IsMatch(c.matcher, haystack)

\* `matches.sort_by(|a, b| a.path.cmp(&b.path))`: insertion into a sorted
\* sequence, equal paths keeping their order.
RECURSIVE InsertByPath(_, _)
InsertByPath(sorted, m) ==
    IF sorted = <<>> THEN <<m>>
    ELSE IF StrLess(PathStr(m.path), PathStr(Head(sorted).path))
        THEN <<m>> \o sorted
    ELSE <<Head(sorted)>> \o InsertByPath(Tail(sorted), m)

RECURSIVE SortByPath(_)
SortByPath(ms) ==
    IF ms = <<>> THEN <<>>
    ELSE CHOOSE r \in {InsertByPath(sorted, Last(ms)) :
                          sorted \in {SortByPath(Front(ms))}} : TRUE

\* `.skip(skip).take(max)` of a sequence.
SkipTake(seq, skip, max) == SubSeq(seq, skip + 1, Min(Len(seq), skip + max))

\* Mutant: has_more computed from the number of matches collected.
find_files_result_from_len(matches, skip, max_results, total_needed, hit_limit, seen_matches) ==
    LET sorted == SortByPath(matches)
        sliced == IF skip >= Len(sorted) THEN <<>> ELSE SkipTake(sorted, skip, max_results)
    IN
    [op |-> "find_files", err |-> "none", matches |-> sliced,
     has_more |-> Len(matches) > total_needed]

\* find_files after the walk: sort, slice, has_more.
find_files_result(matches, skip, max_results, total_needed, hit_limit, seen_matches) ==
    LET sorted == SortByPath(matches)
        sliced == IF skip >= Len(sorted) THEN <<>> ELSE SkipTake(sorted, skip, max_results)
    IN
    [op |-> "find_files", err |-> "none", matches |-> sliced,
     has_more |-> hit_limit \/ seen_matches > total_needed]

(***************************************************************************)
(* LocalGitAwareFs::search_text: the part before the parallel walk, and    *)
(* the line arithmetic of the walk callback.                               *)
(***************************************************************************)
search_text_setup(f, a) ==
    LET root_arg == UnwrapOr(a.root, Rel(<<>>))
        c == Canonicalize(f, Join(root_arg))
        inc == build_globset(a.include_globs)
        exc == build_globset(a.exclude_globs)
        matcher == CompileRegex(a.query, UnwrapOr(a.mode, "literal") = "literal",
                                ~UnwrapOr(a.case_sensitive, FALSE))
    IN
    IF c.err # "none" THEN [err |-> "CanonicalizePath", done |-> TRUE]
    ELSE IF root_arg.abs /\ ~find_git_root(f, c.path).found
        THEN [err |-> "SearchRootNotInGit", done |-> TRUE]
    ELSE IF ~root_arg.abs /\ ~StartsWith(c.path, Root)
        THEN [err |-> "SearchRootEscapesRepo", done |-> TRUE]
    ELSE IF inc.err # "none" THEN [err |-> inc.err, done |-> TRUE]
    ELSE IF exc.err # "none" THEN [err |-> exc.err, done |-> TRUE]
    ELSE IF ~matcher.valid THEN [err |-> "InvalidSearchRegex", done |-> TRUE]
    ELSE [err |-> "none", done |-> FALSE,
          start_path |-> c.path,
          recursive |-> TRUE,
          max_results |-> UnwrapOr(a.max_results, DEFAULT_MAX_SEARCH_RESULTS),
          context_lines |-> UnwrapOr(a.context_lines, DEFAULT_SEARCH_CONTEXT_LINES),
          skip |-> UnwrapOr(a.skip, 0),
          include_globs |-> inc.set, exclude_globs |-> exc.set,
          matcher |-> matcher]

\* `line_starts`: 0-based offsets of the line starts of a non-empty file.
RECURSIVE LineStartsFrom(_, _)
LineStartsFrom(data, i) ==
    IF i >= Len(data) THEN <<>>
    ELSE (IF data[i + 1] = "\n" /\ i + 1 < Len(data) THEN <<i + 1>> ELSE <<>>)
         \o LineStartsFrom(data, i + 1)

line_starts(data) == <<0>> \o LineStartsFrom(data, 0)

\* `line_end` (and `ctx_end`) of the line with 0-based index idx.
line_end(data, starts, idx) ==
    IF idx + 1 < Len(starts) THEN Max(starts[idx + 2] - 1, 0) ELSE Len(data)

\* `&mmap[start..end]`
Slice(data, start, end) == SubSeq(data, start + 1, end)

\* The line loop skips the line: `line_start >= line_end || line_end > mmap.len()`.
LineSkipped(data, starts, idx) ==
    \/ starts[idx + 1] >= line_end(data, starts, idx)
    \/ line_end(data, starts, idx) > Len(data)

\* String::from_utf8_lossy: a byte that is no part of a character becomes
\* U+FFFD.
RECURSIVE Lossy(_)
Lossy(b) ==
    IF b = <<>> THEN <<>>
    ELSE IF Head(b) = "C3" /\ Len(b) >= 2 /\ b[2] = "A9"
        THEN <<"C3", "A9">> \o Lossy(Tail(Tail(b)))
    ELSE IF Head(b) \in {"C3", "A9"} THEN <<"FFFD">> \o Lossy(Tail(b))
    ELSE <<Head(b)>> \o Lossy(Tail(b))

\* The context lines with index in lo..hi-1 (0-based), empty ones dropped.
RECURSIVE ContextLines(_, _, _, _)
ContextLines(data, starts, lo, hi) ==
    IF lo >= hi THEN <<>>
    ELSE (IF LineSkipped(data, starts, lo) THEN <<>>
          ELSE <<Lossy(Slice(data, starts[lo + 1], line_end(data, starts, lo)))>>)
         \o ContextLines(data, starts, lo + 1, hi)

\* Mutant: the hit carries the 0-based index of its line.
SearchHitOf_zero_based(f, c, path, idx) ==
    LET data == f[path].data
        starts == line_starts(data)
        line_slice == Slice(data, starts[idx + 1], line_end(data, starts, idx))
    IN
    [path |-> Display(path), line |-> idx,
     column |-> FindStart(c.matcher, line_slice),
     line_text |-> Lossy(line_slice),
     context_before |-> ContextLines(data, starts, Max(idx - c.context_lines, 0), idx),
     context_after |-> ContextLines(data, starts, idx + 1,
                                    Min(Len(starts), idx + 1 + c.context_lines))]

\* The SearchHit pushed for a match on line idx of the file at `path`.
SearchHitOf(f, c, path, idx) ==
    LET data == f[path].data
        starts == line_starts(data)
        line_count == Len(starts)
        line_slice == Slice(data, starts[idx + 1], line_end(data, starts, idx))
        start_ctx == Max(idx - c.context_lines, 0)
        end_ctx == Min(line_count, idx + 1 + c.context_lines)
    IN
    [path |-> Display(path), line |-> idx + 1,
     column |-> FindStart(c.matcher, line_slice),
     line_text |-> Lossy(line_slice),
     context_before |-> ContextLines(data, starts, start_ctx, idx),
     context_after |-> ContextLines(data, starts, idx + 1, end_ctx)]

\* The walk callback of search_text before the file is opened: TRUE when
\* the entry is a regular file that survives the filters.
SearchEntryPasses(f, c, path) ==
    /\ f[path].kind = "file"
    /\ PassesGlobs(c.include_globs, c.exclude_globs,
                   PathStr(StripPrefix(path, c.start_path)))

(***************************************************************************)
(* The calls explored.  Paths are written as the user gives them.          *)
(***************************************************************************)
RelPaths ==
    { Rel(<<>>), Rel(<<"ab">>), Rel(<<"d">>), Rel(<<"d", "a">>), Rel(<<"zz">>),
      Rel(<<"ab", "x">>), Rel(<<"n", "x">>), Rel(<<"l">>), Rel(<<"l", "s">>),
      Rel(<<"..">>), Rel(<<"..", "g">>), Rel(<<"..", "..", "N", "s">>),
      Rel(<<"..", "..", "N", "zz">>), Rel(<<"..", "..", "B", "h">>) }

AbsPaths ==
    { Abs(<<"A", "w">>), Abs(<<"A", "w", "ab">>), Abs(<<"A", "g">>), Abs(<<"A", "k">>),
      Abs(<<"B", "h">>), Abs(<<"B", "k">>), Abs(<<"N">>), Abs(<<"N", "s">>),
      Abs(<<"N", "k">>) }

Paths == RelPaths \cup AbsPaths

FromPaths ==
    { Rel(<<"ab">>), Rel(<<"d">>), Rel(<<"zz">>), Rel(<<"..", "g">>),
      Rel(<<"..", "..", "B", "h">>), Rel(<<"..", "..", "N", "s">>),
      Abs(<<"A", "g">>), Abs(<<"B", "h">>), Abs(<<"N", "s">>) }

ToPaths ==
    { Rel(<<"ab">>), Rel(<<"b">>), Rel(<<"d">>), Rel(<<"k">>), Rel(<<"n", "k">>),
      Rel(<<"..", "k">>), Rel(<<"..", "..", "B", "k">>), Rel(<<"..", "..", "N", "k">>),
      Abs(<<"A", "k">>), Abs(<<"B", "k">>), Abs(<<"B", "n", "k">>), Abs(<<"N", "k">>) }

OptFlag == {None, Some(TRUE)}

OptNoFlag == {None, Some(FALSE)}

StatArgs == [path : Paths]

ReadFileArgs ==
    [path : Paths, range_type : {None}, offset_bytes : {None, Some(1)},
     max_bytes : {None, Some(2)}, start_line : {None}, max_lines : {None}]
    \cup [path : Paths, range_type : {None, Some("bytes")}, offset_bytes : {None},
          max_bytes : {None}, start_line : {None, Some(0), Some(2)},
          max_lines : {None, Some(1)}]

CreateFileArgs ==
    [path : Paths, content : {None, Some(<<"b">>)}, overwrite : OptFlag,
     create_parents : OptFlag]

DeletePathArgs == [path : Paths, recursive : OptFlag, force : OptFlag]

TransferArgs ==
    [from : FromPaths, to : ToPaths, overwrite : OptFlag, create_parents : OptNoFlag]

OverwriteFileArgs == [path : Paths, content : {<<>>, <<"b">>}]

\* Traversal calls made to explore how the start path is resolved.
EntryRoots ==
    { None, Some(Rel(<<"d">>)), Some(Rel(<<"ab">>)), Some(Rel(<<"zz">>)),
      Some(Rel(<<"l">>)), Some(Rel(<<"..">>)), Some(Rel(<<"..", "..", "N">>)),
      Some(Abs(<<"A", "w", "d">>)), Some(Abs(<<"B">>)), Some(Abs(<<"N">>)) }

EntryListArgs ==
    [root : EntryRoots, recursive : {None}, include_globs : {None, Some(<< <<"[">> >>)},
     exclude_globs : {None}, max_results : {None}, include_dirs : {None},
     skip : {None}, include_metadata : {None, Some(TRUE)}]

EntryFindArgs ==
    [query : {<<"a">>}, root : EntryRoots, recursive : {None},
     include_globs : {None}, exclude_globs : {None, Some(<< <<"[">> >>)},
     max_results : {None, Some(0)}, include_dirs : {None}, skip : {None},
     match_mode : {None}, case_sensitive : {None}]

EntrySearchArgs ==
    [query : {<<"a">>, <<"(">>}, mode : {None, Some("regex")}, case_sensitive : {None},
     root : EntryRoots, include_globs : {None}, exclude_globs : {None},
     max_results : {None}, context_lines : {None}, skip : {None}]

\* Traversal calls made to explore the walk and the paging.
WalkRoots == {None, Some(Rel(<<"d">>)), Some(Abs(<<"B">>))}

PageSkip == {None, Some(1)}

PageMax == {None, Some(0), Some(1), Some(2)}

WalkListArgs ==
    [root : WalkRoots, recursive : {None, Some(FALSE)},
     include_globs : {None, Some(<< <<"*", "a">>, <<"b">> >>)},
     exclude_globs : {None, Some(<< <<"d", "*">> >>)},
     max_results : PageMax, include_dirs : {None, Some(TRUE)},
     skip : PageSkip, include_metadata : {None, Some(TRUE)}]

WalkFindArgs ==
    [query : {<<>>, <<"a">>}, root : {None}, recursive : {None},
     include_globs : {None}, exclude_globs : {None},
     max_results : PageMax, include_dirs : {None}, skip : PageSkip,
     match_mode : {None}, case_sensitive : {None}]

WalkSearchArgs ==
    [query : {<<"a">>}, mode : {None}, case_sensitive : {None},
     root : {None}, include_globs : {None}, exclude_globs : {None},
     max_results : PageMax, context_lines : {None, Some(0)}, skip : PageSkip]

(***************************************************************************)
(* State machine.  A call is made when the server is idle; Respond hands   *)
(* the result to the caller, after which nothing of the call is kept.      *)
(***************************************************************************)
NoCall == [op |-> "none"]

NoRes == [op |-> "none", err |-> "none"]

NoWalk == [op |-> "none"]

Init ==
    /\ fs = InitFs
    /\ fs0 = InitFs
    /\ nops = 0
    /\ phase = "idle"
    /\ call = NoCall
    /\ res = NoRes
    /\ walk = NoWalk

\* A read-only call returns.
Returns(op, a, r) ==
    /\ phase = "idle"
    /\ phase' = "returned"
    /\ call' = [op |-> op, args |-> a]
    /\ res' = r
    /\ fs0' = fs
    /\ UNCHANGED <<fs, nops, walk>>

\* A call that may change the filesystem returns.
Mutates(op, a, r) ==
    /\ phase = "idle"
    /\ nops < MaxOps
    /\ phase' = "returned"
    /\ call' = [op |-> op, args |-> a]
    /\ res' = r.res
    /\ fs0' = fs
    /\ fs' = r.fs
    /\ nops' = nops + 1
    /\ UNCHANGED walk

Stat == \E a \in StatArgs : Returns("stat", a, stat(fs, a))

PathInfo == \E a \in StatArgs : Returns("path_info", a, path_info(fs, a))

ReadFile == \E a \in ReadFileArgs : Returns("read_file", a, read_file(fs, a))

CreateFile == \E a \in CreateFileArgs : Mutates("create_file", a, create_file(fs, a))

DeletePath == \E a \in DeletePathArgs : Mutates("delete_path", a, delete_path(fs, a))

CopyPath == \E a \in TransferArgs : Mutates("copy_path", a, copy_path(fs, a))

MovePath == \E a \in TransferArgs : Mutates("move_path", a, move_path(fs, a))

OverwriteFile ==
    \E a \in OverwriteFileArgs : Mutates("overwrite_file", a, overwrite_file(fs, a))

Respond ==
    /\ phase \in {"returned", "done"}
    /\ phase' = "idle"
    /\ call' = NoCall
    /\ res' = NoRes
    /\ fs0' = fs
    /\ walk' = NoWalk
    /\ UNCHANGED <<fs, nops>>

(***************************************************************************)
(* list_files walks sequentially: one step.                                *)
(***************************************************************************)
ListFiles(S) ==
    \E a \in S :
        /\ phase = "idle"
        /\ phase' = "returned"
        /\ call' = [op |-> "list_files", args |-> a]
        /\ res' = list_files(fs, a)
        /\ walk' = [op |-> "list_files", visited |-> list_files_visited(fs, a),
                    opened |-> 0]
        /\ fs0' = fs
        /\ UNCHANGED <<fs, nops>>

(***************************************************************************)
(* find_files and search_text walk in parallel (WalkParallel::run): every  *)
(* worker thread takes entries from the shared pool and runs the callback  *)
(* on each; a directory's entries join the pool when the callback returns  *)
(* Continue for it; after a Quit no worker takes another entry.            *)
(*                                                                         *)
(* walk.c holds what the callback captures, walk.w the workers.  `visited` *)
(* counts callback invocations, `opened` the files opened.                 *)
(***************************************************************************)
NWorkers == 2

Workers == 1..NWorkers

IdleWorker == [pc |-> "idle", entry |-> <<>>, idx |-> 0]

StartWalk(op, c) ==
    [op |-> op, c |-> c, pool |-> {c.start_path},
     w |-> [i \in Workers |-> IdleWorker],
     seen_matches |-> 0, hit_limit |-> FALSE, quit_now |-> FALSE, lock |-> 0,
     matches |-> <<>>, visited |-> 0, opened |-> 0]

\* The call returns before any walk: an error, or find_files' empty result.
EarlyReturn(op, a, r) ==
    /\ phase' = "returned"
    /\ call' = [op |-> op, args |-> a]
    /\ res' = r
    /\ walk' = [op |-> op, visited |-> 0, opened |-> 0]
    /\ fs0' = fs
    /\ UNCHANGED <<fs, nops>>

Walking(op, a, c) ==
    /\ phase' = op
    /\ call' = [op |-> op, args |-> a]
    /\ res' = NoRes
    /\ walk' = StartWalk(op, c)
    /\ fs0' = fs
    /\ UNCHANGED <<fs, nops>>

FindFilesStart(S) ==
    \E a \in S :
        LET c == find_files_setup(fs, a) IN
        /\ phase = "idle"
        /\ IF c.err # "none" THEN EarlyReturn("find_files", a, Fail("find_files", c.err))
           ELSE IF c.done
               THEN EarlyReturn("find_files", a,
                                [op |-> "find_files", err |-> "none",
                                 matches |-> <<>>, has_more |-> FALSE])
           ELSE Walking("find_files", a, c)

SearchTextStart(S) ==
    \E a \in S :
        LET c == search_text_setup(fs, a) IN
        /\ phase = "idle"
        /\ IF c.err # "none" THEN EarlyReturn("search_text", a, Fail("search_text", c.err))
           ELSE Walking("search_text", a, c)

\* A worker takes the next entry from the pool.
WalkTake(i) ==
    /\ phase \in {"find_files", "search_text"}
    /\ walk.w[i].pc = "idle"
    /\ ~walk.quit_now
    /\ \E e \in walk.pool :
        walk' = [walk EXCEPT !.pool = @ \ {e},
                             !.w[i] = [pc |-> "cb", entry |-> e, idx |-> 0]]
    /\ UNCHANGED <<fs, fs0, nops, phase, call, res>>

\* The pool after the callback returned Continue for entry e.
PoolAfter(e) ==
    IF Descends(fs, walk.c.start_path, walk.c.recursive, e)
        THEN walk.pool \cup WalkChildren(fs, e)
        ELSE walk.pool

\* The callback returns WalkState::Continue / WalkState::Quit.
Continue(wk, i) == [wk EXCEPT !.w[i] = IdleWorker, !.pool = PoolAfter(walk.w[i].entry)]

Quit(wk, i) == [wk EXCEPT !.w[i] = IdleWorker, !.quit_now = TRUE]

WalkStep(i, op, pc) ==
    /\ phase = op
    /\ walk.w[i].pc = pc
    /\ UNCHANGED <<fs, fs0, nops, phase, call, res>>

\* Mutant: the callback does not look at the hit-limit flag.
FindCallback_ignores_flag(i) ==
    /\ WalkStep(i, "find_files", "cb")
    /\ LET v == [walk EXCEPT !.visited = @ + 1] IN
       walk' = IF ~FindEntryMatches(fs, walk.c, walk.w[i].entry) THEN Continue(v, i)
               ELSE [v EXCEPT !.w[i].pc = "count"]

\* find_files callback: `hit_limit.load`, the filters and the matcher.
FindCallback(i) ==
    /\ WalkStep(i, "find_files", "cb")
    /\ LET v == [walk EXCEPT !.visited = @ + 1] IN
       walk' = IF walk.hit_limit THEN Quit(v, i)
               ELSE IF ~FindEntryMatches(fs, walk.c, walk.w[i].entry) THEN Continue(v, i)
               ELSE [v EXCEPT !.w[i].pc = "count"]

\* Mutant: the cap is taken to be hit by the match that fills the page.
FindCount_at_cap(i) ==
    /\ WalkStep(i, "find_files", "count")
    /\ walk' = [walk EXCEPT !.seen_matches = @ + 1,
                            !.w[i].pc = IF walk.seen_matches + 1 >= walk.c.total_needed
                                          THEN "store" ELSE "lock"]

\* `seen_matches.fetch_add(1) + 1` and the comparison with total_needed.
FindCount(i) ==
    /\ WalkStep(i, "find_files", "count")
    /\ walk' = [walk EXCEPT !.seen_matches = @ + 1,
                            !.w[i].pc = IF walk.seen_matches + 1 > walk.c.total_needed
                                          THEN "store" ELSE "lock"]

\* `hit_limit.store(true)`; return Quit.
FindStore(i) ==
    /\ WalkStep(i, "find_files", "store")
    /\ walk' = Quit([walk EXCEPT !.hit_limit = TRUE], i)

\* `matches.lock()`
FindLock(i) ==
    /\ WalkStep(i, "find_files", "lock")
    /\ walk.lock = 0
    /\ walk' = [walk EXCEPT !.lock = i, !.w[i].pc = "push"]

\* Mutant: the guard is not dropped after the push.
FindPush_keeps_lock(i) ==
    /\ WalkStep(i, "find_files", "push")
    /\ LET e == walk.w[i].entry IN
       walk' = Continue([walk EXCEPT
                   !.matches = Append(@, [path |-> StripPrefix(e, walk.c.start_path),
                                          is_dir |-> fs[e].kind = "dir"])], i)

\* `guard.push(..)`; the guard is dropped; return Continue.
FindPush(i) ==
    /\ WalkStep(i, "find_files", "push")
    /\ LET e == walk.w[i].entry IN
       walk' = Continue([walk EXCEPT
                   !.matches = Append(@, [path |-> StripPrefix(e, walk.c.start_path),
                                          is_dir |-> fs[e].kind = "dir"]),
                   !.lock = 0], i)

\* No worker runs and none will take an entry: WalkParallel::run returns.
WalkOver ==
    /\ \A i \in Workers : walk.w[i].pc = "idle"
    /\ walk.quit_now \/ walk.pool = {}

FindFilesFinish ==
    /\ phase = "find_files"
    /\ WalkOver
    /\ phase' = "done"
    /\ res' = find_files_result(walk.matches, walk.c.skip, walk.c.max_results,
                                walk.c.total_needed, walk.hit_limit, walk.seen_matches)
    /\ UNCHANGED <<fs, fs0, nops, call, walk>>

\* search_text callback up to the line loop: `hit_limit.load`, the file-type
\* test, the filters, File::open and Mmap::map, the empty-file test.
SearchCallback(i) ==
    /\ WalkStep(i, "search_text", "cb")
    /\ LET v == [walk EXCEPT !.visited = @ + 1]
           e == walk.w[i].entry
       IN
       walk' = IF walk.hit_limit THEN Quit(v, i)
               ELSE IF ~SearchEntryPasses(fs, walk.c, e) THEN Continue(v, i)
               ELSE IF fs[e].data = <<>> THEN Continue([v EXCEPT !.opened = @ + 1], i)
               ELSE [v EXCEPT !.opened = @ + 1, !.w[i].pc = "line"]

\* Mutant: the line loop does not advance.
NextLine_same_line(wk, i) == [wk EXCEPT !.w[i].pc = "line"]

\* The worker moves on to the next line of its file.
NextLine(wk, i) == [wk EXCEPT !.w[i].pc = "line", !.w[i].idx = @ + 1]

\* One iteration of the line loop up to `matcher.find(line_slice)`.
SearchLine(i) ==
    /\ WalkStep(i, "search_text", "line")
    /\ LET data == fs[walk.w[i].entry].data
           starts == line_starts(data)
           idx == walk.w[i].idx
       IN
       walk' = IF idx >= Len(starts) THEN Continue(walk, i)
               ELSE IF walk.hit_limit THEN Quit(walk, i)
               ELSE IF LineSkipped(data, starts, idx) THEN NextLine(walk, i)
               ELSE IF ~IsMatch(walk.c.matcher,
                                Slice(data, starts[idx + 1], line_end(data, starts, idx)))
                   THEN NextLine(walk, i)
               ELSE [walk EXCEPT !.w[i].pc = "count"]

\* Mutant: the match is counted but never skipped.
SearchCount_no_skip(i) ==
    /\ WalkStep(i, "search_text", "count")
    /\ walk' = [walk EXCEPT !.seen_matches = @ + 1, !.w[i].pc = "lock"]

\* `seen_matches.fetch_add(1)` and `seen_after <= skip`.
SearchCount(i) ==
    /\ WalkStep(i, "search_text", "count")
    /\ walk' = IF walk.seen_matches + 1 <= walk.c.skip
                 THEN NextLine([walk EXCEPT !.seen_matches = @ + 1], i)
                 ELSE [walk EXCEPT !.seen_matches = @ + 1, !.w[i].pc = "lock"]

\* `hits.lock()`
SearchLock(i) ==
    /\ WalkStep(i, "search_text", "lock")
    /\ walk.lock = 0
    /\ walk' = [walk EXCEPT !.lock = i, !.w[i].pc = "push"]

\* Mutant: the push is made without the capacity check under the lock.
SearchPush_no_recheck(i) ==
    /\ WalkStep(i, "search_text", "push")
    /\ LET hit == SearchHitOf(fs, walk.c, walk.w[i].entry, walk.w[i].idx)
           pushed == [walk EXCEPT !.lock = 0, !.matches = Append(@, hit)]
       IN
       walk' = IF Len(pushed.matches) >= walk.c.max_results
                 THEN Quit([pushed EXCEPT !.hit_limit = TRUE], i)
               ELSE NextLine(pushed, i)

\* Under the lock: the capacity check, the push, the second capacity check.
\* The guard is dropped on every way out.
SearchPush(i) ==
    /\ WalkStep(i, "search_text", "push")
    /\ LET hit == SearchHitOf(fs, walk.c, walk.w[i].entry, walk.w[i].idx)
           free == [walk EXCEPT !.lock = 0]
           pushed == [free EXCEPT !.matches = Append(@, hit)]
       IN
       walk' = IF Len(walk.matches) >= walk.c.max_results
                 THEN Quit([free EXCEPT !.hit_limit = TRUE], i)
               ELSE IF Len(pushed.matches) >= walk.c.max_results
                 THEN Quit([pushed EXCEPT !.hit_limit = TRUE], i)
               ELSE NextLine(pushed, i)

SearchTextFinish ==
    /\ phase = "search_text"
    /\ WalkOver
    /\ phase' = "done"
    /\ res' = [op |-> "search_text", err |-> "none", hits |-> walk.matches,
               has_more |-> walk.hit_limit]
    /\ UNCHANGED <<fs, fs0, nops, call, walk>>

Worker(i) ==
    \/ WalkTake(i)
    \/ FindCallback(i)
    \/ FindCount(i)
    \/ FindStore(i)
    \/ FindLock(i)
    \/ FindPush(i)
    \/ SearchCallback(i)
    \/ SearchLine(i)
    \/ SearchCount(i)
    \/ SearchLock(i)
    \/ SearchPush(i)

Next ==
    \/ Stat
    \/ PathInfo
    \/ ReadFile
    \/ CreateFile
    \/ DeletePath
    \/ CopyPath
    \/ MovePath
    \/ OverwriteFile
    \/ ListFiles(EntryListArgs)
    \/ FindFilesStart(EntryFindArgs)
    \/ SearchTextStart(EntrySearchArgs)
    \/ Respond

Spec == Init /\ [][Next]_vars

(***************************************************************************)
(* The traversal calls on the initial tree, walked to their end.           *)
(***************************************************************************)
NextWalk ==
    \/ ListFiles(WalkListArgs)
    \/ FindFilesStart(WalkFindArgs)
    \/ SearchTextStart(WalkSearchArgs)
    \/ \E i \in Workers : Worker(i)
    \/ FindFilesFinish
    \/ SearchTextFinish
    \/ Respond

SpecWalk == Init /\ [][NextWalk]_vars

\* A step of the running walk: of one of its threads, or the return of
\* WalkParallel::run once no thread runs.
WalkRun ==
    \/ \E i \in Workers : Worker(i)
    \/ FindFilesFinish
    \/ SearchTextFinish

\* Fair scheduling: while some thread of the walk can take a step, one of
\* them eventually does.
FairWalk == WF_vars(WalkRun)

\* One find_files or search_text call on the initial tree, from the call to
\* its result.
NextCall ==
    \/ FindFilesStart(WalkFindArgs)
    \/ SearchTextStart(WalkSearchArgs)
    \/ WalkRun

SpecWalkFair == Init /\ [][NextCall]_vars /\ FairWalk

(***************************************************************************)
(* read_file on one file of Root, for every content of the file up to      *)
(* MaxContentLen bytes and a few longer ones.                              *)
(***************************************************************************)
MaxContentLen == 3

\* The bytes of the file: ASCII letters, the two line-ending bytes, and the
\* two bytes of the UTF-8 encoding of U+00E9.
ReadBytes == {"a", "\n", "\r", "C3", "A9"}

Contents ==
    UNION {[1..n -> ReadBytes] : n \in 0..MaxContentLen}
    \cup { <<"a", "b", "a", "b", "a", "b", "a", "b", "a", "b">>,
           <<"a", "\n", "b", "\n", "a", "\n">>,
           <<"a", "\n", "b", "\n", "a">>,
           <<"a", "\r", "\n", "b", "\r", "\n", "a", "\r", "\n">>,
           <<"a", "\n", "C3", "A9", "\n", "b", "\n", "a", "\n">> }

ReadTarget == <<"A", "w", "ab">>

InitRead ==
    /\ \E c \in Contents : fs = [InitFs EXCEPT ![ReadTarget] = FileNode(c)]
    /\ fs0 = fs
    /\ nops = 0
    /\ phase = "idle"
    /\ call = NoCall
    /\ res = NoRes
    /\ walk = NoWalk

\* Byte-range calls, line-range calls, and calls with both kinds of range
\* parameters on a file, a directory and a missing path.
ReadChunkArgs ==
    [path : {Rel(<<"ab">>)}, range_type : {None, Some("bytes")},
     offset_bytes : {None, Some(0), Some(1), Some(2)},
     max_bytes : {None, Some(0), Some(1), Some(5), Some(10)},
     start_line : {None}, max_lines : {None}]
    \cup
    [path : {Rel(<<"ab">>)}, range_type : {None, Some("lines")},
     offset_bytes : {None}, max_bytes : {None},
     start_line : {None, Some(1), Some(2), Some(3)},
     max_lines : {None, Some(0), Some(1), Some(2)}]
    \cup
    [path : {Rel(<<"ab">>), Rel(<<"d">>), Rel(<<"zz">>)},
     range_type : {None, Some("bytes"), Some("lines")},
     offset_bytes : {None, Some(1)}, max_bytes : {Some(1)},
     start_line : {Some(1)}, max_lines : {None, Some(1)}]

ReadChunk == \E a \in ReadChunkArgs : Returns("read_file", a, read_file(fs, a))

NextRead ==
    \/ ReadChunk
    \/ Respond

SpecRead == InitRead /\ [][NextRead]_vars

(***************************************************************************)
(* search_text on a directory that holds one file, for every content of    *)
(* the file up to MaxLineContentLen bytes and a few longer ones.           *)
(***************************************************************************)
MaxLineContentLen == 3

SearchBytes == {"a", "A", "b", "B", "\n"}

LineContents ==
    UNION {[1..n -> SearchBytes] : n \in 0..MaxLineContentLen}
    \cup { <<"b", "A", "B", "a", "b">>,
           <<"b", "\n", "\n", "b", "A", "b">>,
           <<"a", "\n", "b", "A", "B", "\n">>,
           <<"b", "b", "\n", "a", "\n", "\n">> }

SearchTarget == <<"A", "w", "d", "a">>

InitSearch ==
    /\ \E c \in LineContents : fs = [InitFs EXCEPT ![SearchTarget] = FileNode(c)]
    /\ fs0 = fs
    /\ nops = 0
    /\ phase = "idle"
    /\ call = NoCall
    /\ res = NoRes
    /\ walk = NoWalk

\* Literal searches of the directory of the file, named relative to Root
\* and by its absolute path.
LineSearchArgs ==
    [query : {<<"a">>, <<"A">>, <<"a", "b">>}, mode : {None},
     case_sensitive : {None, Some(TRUE)},
     root : {Some(Rel(<<"d">>)), Some(Abs(<<"A", "w", "d">>))},
     include_globs : {None}, exclude_globs : {None},
     max_results : {None, Some(1)}, context_lines : {None}, skip : {None}]

SearchWorker(i) ==
    \/ WalkTake(i)
    \/ SearchCallback(i)
    \/ SearchLine(i)
    \/ SearchCount(i)
    \/ SearchLock(i)
    \/ SearchPush(i)

NextSearch ==
    \/ SearchTextStart(LineSearchArgs)
    \/ \E i \in Workers : SearchWorker(i)
    \/ SearchTextFinish
    \/ Respond

SpecSearch == InitSearch /\ [][NextSearch]_vars

(***************************************************************************)
(* Properties.                                                             *)
(***************************************************************************)
\* The last call has returned to the caller (with res) and is of operation op.
Returned(op) == phase \in {"returned", "done"} /\ call.op = op

\* The user path a single-path or traversal call was given.
CallPath ==
    IF call.op \in {"list_files", "find_files", "search_text"}
        THEN UnwrapOr(call.args.root, Rel(<<>>))
        ELSE call.args.path

\* A relative user path whose resolution (canonical form) lies outside Root.
EscapesRoot(f, up) ==
    /\ ~up.abs
    /\ Canonicalize(f, Join(up)).err = "none"
    /\ ~StartsWith(Canonicalize(f, Join(up)).path, Root)

\* No regular file was created, removed or changed between f and g, and
\* nothing but directories was added.
FilesUntouched(f, g) ==
    /\ \A q \in DOMAIN f : q \in DOMAIN g /\ g[q] = f[q]
    /\ \A q \in DOMAIN g \ DOMAIN f : g[q].kind = "dir"

ResolvingOps == {"read_file", "list_files", "find_files", "search_text", "stat", "delete_path"}

\* C1: a relative path whose resolution lies outside Root makes read_file,
\* list_files, find_files, search_text, stat and delete_path fail with a
\* path-escape error (and leaves the filesystem as it was).
C1_RelativeEscapeRejected ==
    (call.op \in ResolvingOps /\ EscapesRoot(fs0, CallPath))
        => /\ phase = "returned"
           /\ res.err \in {"PathEscapesRepo", "SearchRootEscapesRepo"}
           /\ fs = fs0

\* C1 witness: a delete_path of an existing file outside Root, named by a
\* relative path, was refused.
C1_Witness ==
    /\ Returned("delete_path")
    /\ call.args.path = Rel(<<"..", "g">>)
    /\ EscapesRoot(fs0, call.args.path)
    /\ res.err = "PathEscapesRepo"

\* For a copy_path / move_path call: the transfer's arguments.
IsTransfer == call.op \in {"copy_path", "move_path"}

NotInGitErrors ==
    {"WritePathNotInGit", "ListRootNotInGit", "FindRootNotInGit", "SearchRootNotInGit"}

\* An absolute user path that exists and has no ".git" in itself or in any
\* ancestor.
OutsideAnyRepo(f, up) ==
    /\ up.abs
    /\ Canonicalize(f, up.comps).err = "none"
    /\ ~find_git_root(f, Canonicalize(f, up.comps).path).found

\* The path arguments of the last call.
CallPaths == IF IsTransfer THEN {call.args.from, call.args.to} ELSE {CallPath}

\* C2 (as claimed): every operation but stat and path_info, given an
\* existing absolute path with no ".git" in itself or in any ancestor, fails
\* (with whatever error: the weakest reading of "a not-in-repository error"),
\* so returns no content, and changes nothing.
C2_AbsoluteNeedsRepo ==
    (/\ call.op \notin {"none", "stat", "path_info"}
     /\ \E up \in CallPaths : OutsideAnyRepo(fs0, up))
        => /\ phase = "returned"
           /\ res.err # "none"
           /\ fs = fs0

\* C3 (as claimed): copy_path and move_path reject a relative `from`, or a
\* relative `to` with an existing parent, whose resolution lies outside Root
\* (with whatever error: the weakest reading of "a path-escape error"), and
\* nothing is copied or moved.
C3_TransferChecksContainment ==
    (/\ IsTransfer
     /\ \/ EscapesRoot(fs0, call.args.from)
        \/ /\ ~call.args.to.abs
           /\ Canonicalize(fs0, Parent(Join(call.args.to))).err = "none"
           /\ ~StartsWith(Canonicalize(fs0, Parent(Join(call.args.to))).path, Root))
        => /\ res.err # "none"
           /\ FilesUntouched(fs0, fs)

\* The nearest repository root above the source of a transfer, which must be
\* a regular file, in the filesystem f.
SourceRepo(f) == find_git_root(f, Canonicalize(f, Join(call.args.from)).path)

\* The nearest repository root above the parent of a transfer's destination.
DestRepo(f) == find_git_root(f, Canonicalize(f, Parent(Join(call.args.to))).path)

\* The last call is a transfer of a regular file that lies in a repository
\* to a destination whose parent exists in f and lies in a repository.
TransferBetweenRepos(f) ==
    /\ IsTransfer
    /\ phase = "returned"
    /\ Metadata(fs0, Join(call.args.from)).is_file
    /\ SourceRepo(fs0).found
    /\ HasParent(Join(call.args.to))
    /\ Canonicalize(f, Parent(Join(call.args.to))).err = "none"
    /\ DestRepo(f).found

\* C4: copy_path and move_path fail with the cross-repository error whenever
\* the nearest repository root above the source differs from the one above
\* the destination's parent; then no file is created, changed or removed
\* (the destination is untouched, the source stays).
C4_CrossRepositoryRejected ==
    (TransferBetweenRepos(fs) /\ SourceRepo(fs0).path # DestRepo(fs).path)
        => /\ res.err = (IF call.op = "copy_path" THEN "CopyAcrossRepos"
                         ELSE "MoveAcrossRepos")
           /\ FilesUntouched(fs0, fs)

\* C4 witness: a move from repository A into an existing directory of
\* repository B was refused as a cross-repository move.
C4_Witness ==
    /\ TransferBetweenRepos(fs0)
    /\ call.op = "move_path"
    /\ SourceRepo(fs0).path = <<"A">>
    /\ DestRepo(fs0).path = <<"B">>
    /\ res.err = "MoveAcrossRepos"

(***************************************************************************)
(* Paging properties of the traversal calls (checked under SpecWalk).      *)
(***************************************************************************)
TraversalOps == {"list_files", "find_files", "search_text"}

\* The last call is a traversal that returned Ok.
TraversalDone ==
    /\ call.op \in TraversalOps
    /\ phase \in {"returned", "done"}
    /\ res.err = "none"

\* The page a traversal call returned.
Page ==
    IF call.op = "list_files" THEN res.entries
    ELSE IF call.op = "find_files" THEN res.matches
    ELSE res.hits

\* max_results and skip of the last traversal call, defaults applied.
MaxResultsOf ==
    UnwrapOr(call.args.max_results,
             IF call.op = "list_files" THEN DEFAULT_LIST_MAX_RESULTS
             ELSE DEFAULT_MAX_SEARCH_RESULTS)

SkipOf == UnwrapOr(call.args.skip, 0)

Range(seq) == {seq[k] : k \in 1..Len(seq)}

\* What the callbacks of the last find_files / search_text call capture,
\* whatever its max_results.
FindCfg == find_files_setup(fs, [call.args EXCEPT !.max_results = Some(1)])

SearchCfg == search_text_setup(fs, call.args)

\* The start path and the entries of the last traversal call's walk.
StartOf == Canonicalize(fs, Join(UnwrapOr(call.args.root, Rel(<<>>)))).path

WalkOf ==
    WalkFrom(fs, StartOf,
             IF call.op = "search_text" THEN TRUE ELSE UnwrapOr(call.args.recursive, TRUE),
             StartOf)

\* list_files: the entries that survive the filters, in walk order.
ListSurvives(e) ==
    /\ e # StartOf
    /\ ~(fs[e].kind = "dir" /\ ~UnwrapOr(call.args.include_dirs, FALSE))
    /\ PassesGlobs(build_globset(call.args.include_globs).set,
                   build_globset(call.args.exclude_globs).set,
                   PathStr(StripPrefix(e, StartOf)))

\* find_files: the entries that match the query and the filters, in walk order.
FindMatchesEntry(e) == FindEntryMatches(fs, FindCfg, e)

AllFindMatches ==
    LET es == SelectSeq(WalkOf, FindMatchesEntry) IN
    [k \in 1..Len(es) |-> [path |-> StripPrefix(es[k], StartOf),
                           is_dir |-> fs[es[k]].kind = "dir"]]

\* search_text: the matching lines <<file, 0-based line index>> of a file.
MatchingLines(e) ==
    LET data == fs[e].data
        starts == line_starts(data)
    IN
    IF ~SearchEntryPasses(fs, SearchCfg, e) \/ data = <<>> THEN <<>>
    ELSE SelectSeq([k \in 1..Len(starts) |-> k - 1],
                   LAMBDA idx :
                       /\ ~LineSkipped(data, starts, idx)
                       /\ IsMatch(SearchCfg.matcher,
                                  Slice(data, starts[idx + 1], line_end(data, starts, idx))))

RECURSIVE HitsOfFiles(_)
HitsOfFiles(es) ==
    IF es = <<>> THEN <<>>
    ELSE [k \in 1..Len(MatchingLines(Head(es))) |->
              <<Display(Head(es)), MatchingLines(Head(es))[k] + 1>>]
         \o HitsOfFiles(Tail(es))

\* search_text: every <<path, line>> that matches, files in walk order.
AllSearchHits == HitsOfFiles(WalkOf)

\* The number of items matching the last traversal call.
TotalMatches ==
    IF call.op = "list_files" THEN Len(SelectSeq(WalkOf, ListSurvives))
    ELSE IF call.op = "find_files" THEN Len(AllFindMatches)
    ELSE Len(AllSearchHits)

\* C5 (as claimed): a traversal called with max_results = N returns at most
\* N entries, for every N >= 0, skip and interleaving.
C5_PageWithinMaxResults == TraversalDone => Len(Page) <= MaxResultsOf

\* C6 (as claimed): has_more is true iff the number of matching items
\* exceeds skip + max_results.
C6_HasMoreIffMoreExist ==
    TraversalDone => (res.has_more <=> TotalMatches > SkipOf + MaxResultsOf)

\* C7 (as claimed): with max_results = 0 the result is empty and no
\* traversal is performed: no entry is visited, no file opened.
C7_ZeroMaxResultsNoTraversal ==
    (TraversalDone /\ MaxResultsOf = 0)
        => /\ Page = <<>>
           /\ walk.visited = 0
           /\ walk.opened = 0

\* The page find_files returns when one worker visits the entries in
\* directory order: the first total_needed matches, sorted, then sliced.
FindSequentialPage ==
    find_files_result(SubSeq(AllFindMatches, 1,
                             Min(Len(AllFindMatches), SkipOf + MaxResultsOf)),
                      SkipOf, MaxResultsOf, SkipOf + MaxResultsOf, FALSE, 0).matches

IsPathSorted(ms) ==
    \A k \in 1..(Len(ms) - 1) : StrLess(PathStr(ms[k].path), PathStr(ms[k + 1].path))

\* C8 (as claimed): find_files returns the same path-sorted page for the
\* same arguments whatever the number of workers and the order of visits:
\* every run returns the page of the one-worker, directory-order run.
C8_FindDeterministic ==
    (TraversalDone /\ call.op = "find_files")
        => /\ res.matches = FindSequentialPage
           /\ IsPathSorted(res.matches)

\* C9 (as claimed): the page of find_files is positions skip+1 ..
\* skip+max_results of the path-sorted list of ALL matching entries.
C9_FindPageOfFullSortedSet ==
    (TraversalDone /\ call.op = "find_files")
        => res.matches = SkipTake(SortByPath(AllFindMatches), SkipOf, MaxResultsOf)

\* C10 (as claimed): the set of <<path, line>> hits search_text returns for
\* given skip and max_results is the same under every interleaving: that of
\* the run that scans the files one after the other in walk order.
C10_SearchPageIndependentOfScheduling ==
    (TraversalDone /\ call.op = "search_text")
        => {<<res.hits[k].path, res.hits[k].line>> : k \in 1..Len(res.hits)}
           = Range(SkipTake(AllSearchHits, SkipOf, MaxResultsOf))

(***************************************************************************)
(* Duplicates and has_more under worker interleavings (SpecWalk).          *)
(***************************************************************************)
FindDone == TraversalDone /\ call.op = "find_files"

SearchDone == TraversalDone /\ call.op = "search_text"

\* C11: under every interleaving, no two matches of a find_files result
\* have the same path and no two hits of a search_text result the same
\* path and line.
C11_NoDuplicates ==
    /\ FindDone =>
        \A j, k \in 1..Len(res.matches) :
            res.matches[j].path = res.matches[k].path => j = k
    /\ SearchDone =>
        \A j, k \in 1..Len(res.hits) :
            (res.hits[j].path = res.hits[k].path /\ res.hits[j].line = res.hits[k].line)
                => j = k

\* A search_text result with two hits in one file, on different lines.
C11_Witness ==
    /\ SearchDone
    /\ \E j, k \in 1..Len(res.hits) :
        res.hits[j].path = res.hits[k].path /\ res.hits[j].line # res.hits[k].line

ReadReturned ==
    /\ call.op = "read_file"
    /\ phase = "returned"
    /\ call.args.path = Rel(<<"ab">>)

HasByteParams == call.args.offset_bytes.some \/ call.args.max_bytes.some

HasLineParams == call.args.start_line.some \/ call.args.max_lines.some

\* A byte-range read / a line-range read of ReadTarget, holding UTF-8 text.
ByteRangeRead ==
    /\ ReadReturned
    /\ ~HasLineParams
    /\ call.args.range_type \in {None, Some("bytes")}
    /\ Utf8Valid(fs[ReadTarget].data)

LineRangeRead ==
    /\ ReadReturned
    /\ ~HasByteParams
    /\ \/ call.args.range_type = Some("lines")
       \/ call.args.range_type = None /\ HasLineParams
    /\ Utf8Valid(fs[ReadTarget].data)

OffsetOf == UnwrapOr(call.args.offset_bytes, 0)

MaxBytesOf == UnwrapOr(call.args.max_bytes, DEFAULT_MAX_READ_BYTES)

StartLineOf == UnwrapOr(call.args.start_line, 1)

MaxLinesOf == UnwrapOr(call.args.max_lines, DEFAULT_MAX_READ_LINES)

\* The lines of the file, without their line endings.
FileLines == SplitLines(fs[ReadTarget].data, <<>>)

\* Lines lo..hi, each followed by one newline.
RECURSIVE LinesFromTo(_, _, _)
LinesFromTo(lines, lo, hi) ==
    IF lo > hi THEN <<>>
    ELSE lines[lo] \o <<"\n">> \o LinesFromTo(lines, lo + 1, hi)

\* The number of lines in the returned content.
ReturnedLines == Cardinality({k \in 1..Len(res.content) : res.content[k] = "\n"})

\* C14 (as claimed): a byte-range read with offset o and max_bytes m of a
\* UTF-8 file of length L returns exactly the bytes [o, min(o+m, L)) and
\* truncated = (o + m < L).
C14_ByteRangeExact ==
    ByteRangeRead =>
        /\ res.err = "none"
        /\ res.content = SubSeq(fs[ReadTarget].data, OffsetOf + 1,
                                Min(OffsetOf + MaxBytesOf, Len(fs[ReadTarget].data)))
        /\ res.is_truncated = (OffsetOf + MaxBytesOf < Len(fs[ReadTarget].data))

\* A line-range read with start_line = 2 and max_lines = 1 of a 3-line file.
SecondOfThree ==
    /\ LineRangeRead
    /\ call.args.start_line = Some(2)
    /\ call.args.max_lines = Some(1)
    /\ Len(FileLines) = 3

\* C15 (as claimed): start_line = 2, max_lines = 1 on a 3-line file returns
\* exactly line 2, newline-terminated, with truncated = false.
C15_SecondLineNotTruncated ==
    SecondOfThree =>
        /\ res.err = "none"
        /\ res.content = FileLines[2] \o <<"\n">>
        /\ res.is_truncated = FALSE

\* C15 (amended): the same read returns exactly line 2, newline-terminated,
\* with truncated = true.
C15_SecondLineTruncated ==
    SecondOfThree =>
        /\ res.err = "none"
        /\ res.content = FileLines[2] \o <<"\n">>
        /\ res.is_truncated = TRUE

\* The read of line 2 of a 3-line file with CRLF line endings.
C15_Witness ==
    /\ SecondOfThree
    /\ fs[ReadTarget].data = <<"a", "\r", "\n", "b", "\r", "\n", "a", "\r", "\n">>
    /\ res.err = "none"
    /\ res.content = <<"b", "\n">>

\* C16 (as claimed): a line-range read with start_line s >= 1 and max_lines
\* m returns exactly the lines s .. min(s+m-1, last line), in order, each
\* followed by a single newline; never more than m lines, for every m >= 0.
C16_LineRangeExact ==
    (LineRangeRead /\ StartLineOf >= 1) =>
        /\ res.err = "none"
        /\ res.content = LinesFromTo(FileLines, StartLineOf,
                                     Min(StartLineOf + MaxLinesOf - 1, Len(FileLines)))
        /\ ReturnedLines <= MaxLinesOf

\* C17 (as claimed): in line mode truncated is reported iff at least one
\* line of the file follows the last returned line.
C17_TruncatedIffLinesFollow ==
    (LineRangeRead /\ StartLineOf >= 1 /\ res.err = "none") =>
        (res.is_truncated <=>
            (ReturnedLines > 0 /\ StartLineOf + ReturnedLines - 1 < Len(FileLines)))

\* C18 (as claimed): read_file given both byte-range and line-range
\* parameters returns the usage error, whatever is found at the path.
C18_MixedRangeRejectedFirst ==
    (call.op = "read_file" /\ phase = "returned" /\ HasByteParams /\ HasLineParams)
        => res.err \in {"ReadFileLinesWithBytes", "ReadFileBytesWithLines"}

(***************************************************************************)
(* delete_path and create_file on missing and existing targets (Spec).     *)
(***************************************************************************)
\* C19: delete_path on a path at which the filesystem finds no entry fails
\* when force is false and returns Ok with existed = false and removed =
\* false when force is true; in both cases nothing changes.
C19_DeleteMissing ==
    (Returned("delete_path") /\ Metadata(fs0, Join(call.args.path)).err = "NotFound")
        => /\ fs = fs0
           /\ IF UnwrapOr(call.args.force, FALSE)
                THEN res.err = "none" /\ ~res.existed /\ ~res.removed
                ELSE res.err # "none"

\* delete_path with force = true returned for a missing path.
C19_Witness ==
    /\ Returned("delete_path")
    /\ Metadata(fs0, Join(call.args.path)).err = "NotFound"
    /\ call.args.force = Some(TRUE)
    /\ res.err = "none"
    /\ ~res.existed

\* What the target of the last create_file call was before the call.
CreateTarget == Metadata(fs0, Join(call.args.path))

\* The target's parent passes the path checks of create_file: inside Root for
\* a relative path, inside a repository for an absolute one.
CreateTargetAllowed ==
    LET par == Canonicalize(fs0, Parent(Join(call.args.path))) IN
    /\ HasParent(Join(call.args.path))
    /\ par.err = "none"
    /\ IF call.args.path.abs THEN find_git_root(fs0, par.path).found
       ELSE StartsWith(par.path, Root)

\* C20: create_file on an existing regular file fails with DestinationExists
\* and changes nothing unless overwrite = true; with overwrite = true it
\* succeeds, reports overwritten and not created, and the file holds exactly
\* the given content (none: empty).  An existing directory is refused and
\* nothing changes, whatever overwrite.
C20_CreateOnExisting ==
    /\ (Returned("create_file") /\ CreateTarget.err = "none" /\ CreateTarget.is_file
            /\ CreateTargetAllowed)
        => IF UnwrapOr(call.args.overwrite, FALSE)
             THEN /\ res.err = "none"
                  /\ res.overwritten
                  /\ ~res.created
                  /\ fs[Canonicalize(fs0, Join(call.args.path)).path].data
                        = UnwrapOr(call.args.content, <<>>)
             ELSE /\ res.err = "DestinationExists"
                  /\ fs = fs0
    /\ (Returned("create_file") /\ CreateTarget.err = "none" /\ CreateTarget.is_dir)
        => /\ res.err # "none"
           /\ fs = fs0

\* create_file with overwrite = true replaced the content of an existing file.
C20_Witness ==
    /\ Returned("create_file")
    /\ call.args.path = Rel(<<"ab">>)
    /\ call.args.overwrite = Some(TRUE)
    /\ call.args.content = Some(<<"b">>)
    /\ res.err = "none"
    /\ fs[<<"A", "w", "ab">>].data = <<"b">>
    /\ fs0[<<"A", "w", "ab">>].data # <<"b">>

(***************************************************************************)
(* copy_path within one repository (Spec).                                 *)
(***************************************************************************)
\* The last call is a copy_path of a regular file to a destination of the
\* same repository that is free, or a regular file with overwrite = true.
CopyWithinRepo ==
    /\ Returned("copy_path")
    /\ TransferBetweenRepos(fs0)
    /\ SourceRepo(fs0).path = DestRepo(fs0).path
    /\ \/ Metadata(fs0, Join(call.args.to)).err = "NotFound"
       \/ /\ Metadata(fs0, Join(call.args.to)).is_file
          /\ call.args.overwrite = Some(TRUE)

\* C21 (as claimed): such a copy succeeds, reports bytes_copied equal to the
\* size of the source, leaves the source as it was and makes the content of
\* the destination equal to that of the source.
C21_CopyWithinRepoCopies ==
    CopyWithinRepo =>
        LET src == Canonicalize(fs0, Join(call.args.from)).path IN
        /\ res.err = "none"
        /\ res.bytes_copied = Some(Len(fs0[src].data))
        /\ fs[src] = fs0[src]
        /\ Metadata(fs, Join(call.args.to)).is_file
        /\ fs[Canonicalize(fs, Join(call.args.to)).path].data = fs0[src].data

(***************************************************************************)
(* search_text: lines and columns (SpecSearch).                            *)
(***************************************************************************)
\* The last call is a search_text of the directory of SearchTarget that
\* returned Ok.
LineSearchDone == SearchDone /\ walk.c.start_path = Front(SearchTarget)

\* s is the 0-based offset of the first byte of a line of data.
LineStartAt(data, s) == s < Len(data) /\ (s = 0 \/ data[s] = "\n")

\* 1 + the number of newline bytes before offset s.
LineNo(data, s) == 1 + Cardinality({k \in 1..s : data[k] = "\n"})

\* The bytes of the line that starts at offset s, without its newline.
LineTextAt(data, s) ==
    LET e == CHOOSE e \in s..Len(data) :
                 /\ e = Len(data) \/ data[e + 1] = "\n"
                 /\ \A k \in (s + 1)..e : data[k] # "\n"
    IN SubSeq(data, s + 1, e)

\* The query occurs in text at the 0-based offset col, letter case ignored
\* unless case_sensitive is true.
Occurs(a, text, col) ==
    /\ col + Len(a.query) <= Len(text)
    /\ \A k \in 1..Len(a.query) :
        IF UnwrapOr(a.case_sensitive, FALSE) THEN a.query[k] = text[col + k]
        ELSE Lower(a.query[k]) = Lower(text[col + k])

\* C22: search_text yields at most one hit per line; the column of a hit is
\* the 0-based byte offset in its line of the leftmost match; with the
\* default case-insensitivity a literal query matches its upper-case and
\* lower-case spellings alike, so that every line holding the query in any
\* letter case has a hit when the page was not cut.
C22_OneHitPerLineLeftmost ==
    LineSearchDone =>
        LET data == fs[SearchTarget].data IN
        /\ \A j, k \in 1..Len(res.hits) :
            (res.hits[j].path = res.hits[k].path /\ res.hits[j].line = res.hits[k].line)
                => j = k
        /\ \A j \in 1..Len(res.hits) :
            \E s \in 0..Len(data) :
                /\ LineStartAt(data, s)
                /\ LineNo(data, s) = res.hits[j].line
                /\ Occurs(call.args, LineTextAt(data, s), res.hits[j].column)
                /\ \A c \in 0..(res.hits[j].column - 1) :
                       ~Occurs(call.args, LineTextAt(data, s), c)
        /\ (call.args.case_sensitive = None /\ ~res.has_more) =>
            \A s \in 0..Len(data) :
                (/\ LineStartAt(data, s)
                 /\ \E c \in 0..Len(data) :
                      Occurs([call.args EXCEPT !.case_sensitive = Some(FALSE)],
                             LineTextAt(data, s), c))
                    => \E j \in 1..Len(res.hits) : res.hits[j].line = LineNo(data, s)

\* The query "ab" with default case sensitivity on the line "bABab": one
\* hit, at the upper-case occurrence in column 1.
C22_Witness ==
    /\ LineSearchDone
    /\ fs[SearchTarget].data = <<"b", "A", "B", "a", "b">>
    /\ call.args.query = <<"a", "b">>
    /\ call.args.case_sensitive = None
    /\ Len(res.hits) = 1
    /\ res.hits[1].column = 1

\* The 1-based numbers of the lines of data that hold the query of call a:
\* 1 + the number of newline bytes before the line.
LinesHolding(a, data) ==
    {LineNo(data, s) : s \in {t \in 0..Len(data) :
        /\ LineStartAt(data, t)
        /\ \E c \in 0..Len(data) : Occurs(a, LineTextAt(data, t), c)}}

\* C23: the `line` of a hit is 1 + the number of newline bytes that precede
\* the matched line, so the hits of an uncut page are numbered exactly as
\* the lines that hold the query and those of a cut page as some of them;
\* a newline that is the last byte of the file adds no line.
C23_LineNumbering ==
    LineSearchDone =>
        LET data == fs[SearchTarget].data
            lines == {res.hits[j].line : j \in 1..Len(res.hits)}
        IN
        /\ lines \subseteq LinesHolding(call.args, data)
        /\ ~res.has_more => lines = LinesHolding(call.args, data)
        /\ \A n \in lines :
            /\ n >= 1
            /\ n <= 1 + Cardinality({k \in 1..(Len(data) - 1) : data[k] = "\n"})

\* The query "ab" on "a\nbAB\n": the only hit is on line 2, and the file
\* ends with a newline.
C23_Witness ==
    /\ LineSearchDone
    /\ fs[SearchTarget].data = <<"a", "\n", "b", "A", "B", "\n">>
    /\ call.args.query = <<"a", "b">>
    /\ Len(res.hits) = 1
    /\ res.hits[1].line = 2

(***************************************************************************)
(* stat, overwrite_file, delete_path and move_path on missing and existing *)
(* targets (Spec).                                                         *)
(***************************************************************************)
\* C24: stat of a path at which the filesystem finds no entry returns Ok
\* with exists = false, is_file = false, is_dir = false and no size,
\* whether the path is relative or absolute, inside Root or not, inside a
\* repository or not; nothing changes.
C24_StatMissing ==
    (Returned("stat") /\ Metadata(fs0, Join(call.args.path)).err = "NotFound")
        => /\ res.err = "none"
           /\ ~res.exists /\ ~res.is_file /\ ~res.is_dir
           /\ res.size = None
           /\ fs = fs0

\* stat returned for a missing absolute path in a directory of no
\* repository.
C24_Witness ==
    /\ Returned("stat")
    /\ call.args.path.abs
    /\ Metadata(fs0, Join(call.args.path)).err = "NotFound"
    /\ ~find_git_root(fs0, Canonicalize(fs0, Front(Join(call.args.path))).path).found
    /\ res.err = "none"
    /\ ~res.exists
\* C25: overwrite_file returns Ok only when its target was a regular file
\* before the call, and then that file holds exactly the given content and
\* nothing else changed; when the target was missing or a directory the
\* call fails and the filesystem is as it was.
C25_OverwriteOnlyExisting ==
    Returned("overwrite_file") =>
        LET before == Metadata(fs0, Join(call.args.path))
            target == Canonicalize(fs0, Join(call.args.path)).path
        IN
        /\ res.err = "none" =>
            /\ before.err = "none" /\ before.is_file
            /\ DOMAIN fs = DOMAIN fs0
            /\ fs[target] = FileNode(call.args.content)
            /\ \A q \in DOMAIN fs0 \ {target} : fs[q] = fs0[q]
        /\ (before.err # "none" \/ before.is_dir) =>
            /\ res.err # "none"
            /\ fs = fs0

\* overwrite_file replaced the content of a regular file by another.
C25_Witness ==
    /\ Returned("overwrite_file")
    /\ res.err = "none"
    /\ Metadata(fs0, Join(call.args.path)).is_file
    /\ call.args.content = <<"b">>
    /\ fs[Canonicalize(fs0, Join(call.args.path)).path].data = <<"b">>
    /\ fs # fs0
\* The last call is a delete_path of a directory.
DeleteOfDir ==
    /\ Returned("delete_path")
    /\ Metadata(fs0, Join(call.args.path)).err = "none"
    /\ Metadata(fs0, Join(call.args.path)).is_dir

\* The directory passes the path checks of delete_path: inside Root for a
\* relative path, inside a repository for an absolute one.
DeleteTargetAllowed ==
    LET canonical == Canonicalize(fs0, Join(call.args.path)).path IN
    IF call.args.path.abs THEN find_git_root(fs0, canonical).found
    ELSE StartsWith(canonical, Root)

\* C26: delete_path on an existing directory with recursive = false fails
\* and removes nothing; with recursive = true (on a directory the path
\* checks allow) it removes the directory and everything beneath it, nothing
\* else, and reports existed = true, is_dir = true, removed = true.
C26_DeleteDirectory ==
    DeleteOfDir =>
        LET canonical == Canonicalize(fs0, Join(call.args.path)).path IN
        /\ ~UnwrapOr(call.args.recursive, FALSE) =>
            /\ res.err # "none"
            /\ fs = fs0
        /\ (UnwrapOr(call.args.recursive, FALSE) /\ DeleteTargetAllowed) =>
            /\ res.err = "none"
            /\ res.existed /\ res.is_dir /\ res.removed
            /\ \A q \in DOMAIN fs0 :
                IF StartsWith(q, canonical) THEN q \notin DOMAIN fs
                ELSE q \in DOMAIN fs /\ fs[q] = fs0[q]
            /\ DOMAIN fs \subseteq DOMAIN fs0

\* delete_path with recursive = true removed a directory that held a file.
C26_Witness ==
    /\ DeleteOfDir
    /\ call.args.recursive = Some(TRUE)
    /\ res.err = "none"
    /\ \E q \in DOMAIN fs0 \ DOMAIN fs :
        /\ fs0[q].kind = "file"
        /\ Front(q) = Canonicalize(fs0, Join(call.args.path)).path
    /\ Canonicalize(fs0, Join(call.args.path)).path \notin DOMAIN fs
\* C27: move_path whose source is missing returns Ok with existed = false
\* and leaves the filesystem as it was (no parent directory of the
\* destination is created, the destination is untouched), whatever the
\* destination, overwrite and create_parents are.
C27_MoveMissingSource ==
    (Returned("move_path") /\ Metadata(fs0, Join(call.args.from)).err = "NotFound")
        => /\ res.err = "none"
           /\ ~res.existed
           /\ fs = fs0

\* move_path of a missing source to a destination whose parent directory is
\* missing too, with create_parents left at its default (true).
C27_Witness ==
    /\ Returned("move_path")
    /\ Metadata(fs0, Join(call.args.from)).err = "NotFound"
    /\ call.args.create_parents = None
    /\ ~Exists(fs0, Parent(Join(call.args.to)))
    /\ res.err = "none"
    /\ ~res.existed
(***************************************************************************)
(* list_files: pages (SpecWalk).                                           *)
(***************************************************************************)
ListDone == TraversalDone /\ call.op = "list_files"

\* The paths of the entries of a page.
PathsOf(entries) == [k \in 1..Len(entries) |-> entries[k].path]

\* The paths, relative to the start, of the entries that survive the
\* filters of the last list_files call, in walk order.
ListSurvivors ==
    LET es == SelectSeq(WalkOf, ListSurvives) IN
    [k \in 1..Len(es) |-> StripPrefix(es[k], StartOf)]

\* The pages of the last call's listing from page k on, skip = k * n and
\* max_results = n, one after the other.
RECURSIVE PagesFrom(_, _)
PagesFrom(k, n) ==
    IF k * n >= Len(ListSurvivors) THEN <<>>
    ELSE PathsOf(list_files(fs, [call.args EXCEPT !.skip = Some(k * n),
                                                  !.max_results = Some(n)]).entries)
         \o PagesFrom(k + 1, n)

\* C28 (as claimed): list_files returns exactly the surviving entries
\* numbered skip+1 .. skip+max_results in walk order, and the pages with
\* skip = 0, N, 2N, ... and max_results = N >= 1 are disjoint and
\* concatenate to the full listing.
C28_ListPageExact ==
    ListDone =>
        /\ PathsOf(res.entries)
             = SubSeq(ListSurvivors, SkipOf + 1,
                      Min(Len(ListSurvivors), SkipOf + MaxResultsOf))
        /\ MaxResultsOf \in 1..Len(ListSurvivors) =>
             PagesFrom(0, MaxResultsOf) = ListSurvivors
(***************************************************************************)
(* Termination of the parallel walks (SpecWalkFair).                       *)
(***************************************************************************)
\* Worker i is at `lock()` of the shared collection.
AtLock(i) == phase \in {"find_files", "search_text"} /\ walk.w[i].pc = "lock"

\* C29: under fair scheduling every find_files and search_text call that
\* walks comes to its result, with every worker idle: none is left at the
\* lock of the shared collection, also after another worker has set the
\* hit-limit flag and quit.
C29_WalkTerminates ==
    (phase \in {"find_files", "search_text"})
        ~> (phase = "done" /\ \A i \in Workers : ~AtLock(i) /\ walk.w[i].pc = "idle")

\* One worker has set the hit-limit flag and quit while the other is at the
\* lock or holds it.
C29_Witness ==
    /\ phase \in {"find_files", "search_text"}
    /\ walk.hit_limit
    /\ walk.quit_now
    /\ \E i \in Workers : walk.w[i].pc \in {"lock", "push"}
(***************************************************************************)
(* search_text with an absolute root: the paths of the hits (SpecSearch).  *)
(***************************************************************************)
\* C30 (as claimed): when search_text is given an absolute root, the path
\* of every hit is relative to that root: joined to the root it names the
\* file of the hit, a regular file under the root that holds the query.
C30_HitPathRelativeToAbsoluteRoot ==
    (LineSearchDone /\ call.args.root.some /\ call.args.root.v.abs) =>
        \A j \in 1..Len(res.hits) :
            LET file == walk.c.start_path \o res.hits[j].path.comps IN
            /\ ~res.hits[j].path.abs
            /\ file \in DOMAIN fs
            /\ fs[file].kind = "file"
            /\ res.hits[j].line \in LinesHolding(call.args, fs[file].data)
(***************************************************************************)
(* list_files and find_files: the base of the returned paths (SpecWalk).   *)
(***************************************************************************)
\* C31 (as claimed): every path list_files or find_files returns is
\* relative to Root when the root argument is relative (or absent) and to
\* the root argument when it is absolute: joined to that base it names an
\* entry of the directory walked.
C31_PathsRelativeToBase ==
    (TraversalDone /\ call.op \in {"list_files", "find_files"}) =>
        LET base == IF CallPath.abs THEN StartOf ELSE Root IN
        \A k \in 1..Len(Page) :
            /\ (base \o Page[k].path) \in DOMAIN fs
            /\ StartsWith(base \o Page[k].path, StartOf)
            /\ Page[k].is_dir = (fs[base \o Page[k].path].kind = "dir")
(***************************************************************************)
(* The shared collection and the hit-limit flag during a walk (SpecWalk).  *)
(***************************************************************************)
\* A find_files or search_text walk is running or has just ended.
InWalk(op) ==
    \/ phase = op
    \/ phase = "done" /\ call.op = op

\* C32: at every state of a search_text call the shared hits hold at most
\* max_results hits, and at every state of a find_files call the shared
\* matches hold at most skip + max_results matches, under every
\* interleaving of the workers.
C32_CollectionBounded ==
    /\ InWalk("search_text") => Len(walk.matches) <= walk.c.max_results
    /\ InWalk("find_files") => Len(walk.matches) <= walk.c.skip + walk.c.max_results

\* Two workers are past the counter check of search_text at the same time,
\* one holding the lock and one waiting for it, with room for one hit.
C32_Witness ==
    /\ phase = "search_text"
    /\ \E i, j \in Workers : walk.w[i].pc = "push" /\ walk.w[j].pc = "lock"
    /\ Len(walk.matches) + 1 = walk.c.max_results
\* The hit-limit flag is set in a running walk, and the walk goes on or ends.
FlagSetStep ==
    /\ phase \in {"find_files", "search_text"}
    /\ walk.hit_limit
    /\ phase' \in {"find_files", "search_text", "done"}

\* The flag stays set, and a worker that runs the start of a callback
\* returns Quit: it adds nothing to the pool and counts no match.
FlagKeptAndObeyed ==
    /\ walk'.hit_limit
    /\ \A i \in Workers :
        (walk.w[i].pc = "cb" /\ walk'.w[i].pc # "cb")
            => /\ walk'.w[i].pc = "idle"
               /\ walk'.quit_now
               /\ walk'.pool = walk.pool
               /\ walk'.seen_matches = walk.seen_matches

\* The workers that have counted a match and not yet pushed it.
Counted(wk) == {i \in Workers : wk.w[i].pc \in {"lock", "push"}}

\* C33 (as claimed): once the hit-limit flag is set it is never cleared, no
\* further item is added to the shared collection, and every worker that
\* enters a callback afterwards returns Quit without producing new work.
C33_FlagStopsEverything ==
    [][FlagSetStep => (FlagKeptAndObeyed /\ walk'.matches = walk.matches)]_vars

\* C33 (amended): the same, except that find_files still adds the matches
\* that workers had counted before the flag was set: after the flag is set
\* the shared collection grows only by a push of such a worker, and no
\* further match is counted in.
C33_FlagStopsNewWork ==
    [][FlagSetStep =>
        /\ FlagKeptAndObeyed
        /\ phase = "search_text" => walk'.matches = walk.matches
        /\ phase = "find_files" =>
            /\ Len(walk'.matches) + Cardinality(Counted(walk'))
                 = Len(walk.matches) + Cardinality(Counted(walk))
            /\ Counted(walk') \subseteq Counted(walk)]_vars

\* The flag of a find_files call is set while a worker holds the lock to
\* push a match it counted before.
C33_Witness ==
    /\ phase = "find_files"
    /\ walk.hit_limit
    /\ \E j \in Workers : walk.w[j].pc = "push"
(***************************************************************************)
(* Rejected create_file, copy_path and move_path calls (Spec).             *)
(***************************************************************************)
\* C34 (as claimed): when create_file, copy_path or move_path returns a
\* path-escape, not-in-repository, cross-repository or destination-exists
\* error, the filesystem is exactly as before the call: no parent
\* directory was created, whatever create_parents is.
C34_RejectedChangesNothing ==
    (/\ phase = "returned"
     /\ call.op \in {"create_file", "copy_path", "move_path"}
     /\ res.err \in {"PathEscapesRepo", "WritePathNotInGit", "CopyAcrossRepos",
                     "MoveAcrossRepos", "DestinationExists"})
        => fs = fs0
(***************************************************************************)
(* search_text: the size of the page under interleavings (SpecWalk).       *)
(***************************************************************************)
\* C35: with T matching lines in the filtered files search_text returns
\* exactly min(max_results, max(0, T - skip)) hits under every interleaving
\* of the workers, and has_more = true only with a page of exactly
\* max_results hits.
C35_SearchPageSize ==
    SearchDone =>
        /\ Len(res.hits) = Min(MaxResultsOf, Max(0, TotalMatches - SkipOf))
        /\ res.has_more => Len(res.hits) = MaxResultsOf

\* A search_text call with skip = 1 and max_results = 2 over four matching
\* lines returned two hits that are not those of the one-worker run.
C35_Witness ==
    /\ SearchDone
    /\ SkipOf = 1
    /\ MaxResultsOf = 2
    /\ TotalMatches = 4
    /\ Len(res.hits) = 2
    /\ res.has_more
    /\ {<<res.hits[k].path, res.hits[k].line>> : k \in 1..Len(res.hits)}
         # Range(SkipTake(AllSearchHits, SkipOf, MaxResultsOf))
(***************************************************************************)
(* search_text: line text and context lines (SpecSearch).                  *)
(***************************************************************************)
\* The number of lines of data: a newline that is the last byte ends the
\* last line and starts none.
LineCount(data) ==
    IF data = <<>> THEN 0
    ELSE 1 + Cardinality({k \in 1..(Len(data) - 1) : data[k] = "\n"})

\* The bytes of line n (1-based) of data, without its newline.
LineText(data, n) ==
    LineTextAt(data, CHOOSE s \in 0..Len(data) :
                         LineStartAt(data, s) /\ LineNo(data, s) = n)

\* C36 (as claimed): the line_text of every hit is exactly the bytes of its
\* line without the terminating newline, and every context line is the
\* bytes of a neighbouring line without its newline, the last line of a
\* file that ends with a newline included.
C36_LineTextWithoutNewline ==
    LineSearchDone =>
        LET data == fs[SearchTarget].data
            c == walk.c.context_lines
        IN
        \A j \in 1..Len(res.hits) :
            LET h == res.hits[j] IN
            /\ h.line_text = LineText(data, h.line)
            /\ \A k \in 1..Len(h.context_before) :
                \E n \in Max(1, h.line - c)..(h.line - 1) :
                    h.context_before[k] = LineText(data, n)
            /\ \A k \in 1..Len(h.context_after) :
                \E n \in (h.line + 1)..Min(LineCount(data), h.line + c) :
                    h.context_after[k] = LineText(data, n)
\* The texts of lines lo..hi (1-based) of data, in file order.
LinesOf(data, lo, hi) == [k \in 1..Max(0, hi - lo + 1) |-> LineText(data, lo + k - 1)]

\* C37 (as claimed): for a hit on line L with context_lines = c,
\* context_before is exactly the lines max(1, L-c) .. L-1 in file order and
\* context_after exactly the lines L+1 .. min(last line, L+c), empty lines
\* included.
C37_ContextExact ==
    LineSearchDone =>
        LET data == fs[SearchTarget].data
            c == walk.c.context_lines
        IN
        \A j \in 1..Len(res.hits) :
            LET h == res.hits[j] IN
            /\ h.context_before = LinesOf(data, Max(1, h.line - c), h.line - 1)
            /\ h.context_after
                 = LinesOf(data, h.line + 1, Min(LineCount(data), h.line + c))
(***************************************************************************)
(* The Root directory (Spec).                                              *)
(***************************************************************************)
\* C38 (as claimed): after any sequence of operations the Root directory
\* still exists; delete_path never removes it.
C38_RootExists == Root \in DOMAIN fs /\ fs[Root].kind = "dir"
(***************************************************************************)
(* stat and the filesystem outside Root (Spec).                            *)
(***************************************************************************)
\* The path `rest` leads to from `cur` when ".." is taken textually.
RECURSIVE LexicalPath(_, _)
LexicalPath(cur, rest) ==
    IF rest = <<>> THEN cur
    ELSE IF Head(rest) = ".."
        THEN LexicalPath(IF cur = <<>> THEN cur ELSE Front(cur), Tail(rest))
    ELSE LexicalPath(Append(cur, Head(rest)), Tail(rest))

\* A relative user path that leaves Root, whatever the filesystem holds.
LeavesRoot(up) == ~up.abs /\ ~StartsWith(LexicalPath(Root, up.comps), Root)

\* The entries of f that are not under Root, not an ancestor of Root, and
\* have nothing below them.
OutsideLeaves(f) ==
    { p \in DOMAIN f :
        /\ ~StartsWith(p, Root)
        /\ ~StartsWith(Root, p)
        /\ \A q \in DOMAIN f : q # p => ~StartsWith(q, p) }

\* f without the entry p: for p in OutsideLeaves(f), a filesystem that
\* agrees with f on everything under Root.
WithoutEntry(f, p) == [q \in DOMAIN f \ {p} |-> f[q]]

\* C39 (as claimed): stat of a relative path that escapes Root returns the
\* same result on every filesystem that agrees with the present one under
\* Root; here, on every filesystem that lacks one entry outside Root.
C39_StatIgnoresOutside ==
    (Returned("stat") /\ LeavesRoot(call.args.path))
        => \A p \in OutsideLeaves(fs0) :
               stat(WithoutEntry(fs0, p), call.args) = res

====
